---- MODULE Spec2Model ----
(***************************************************************************)
(* Model of the HTTP request-routing and dispatch core: endpoint trie,     *)
(* request dispatcher, request queue, two-lane response queue, request and *)
(* response processors and the request manager.                            *)
(*                                                                         *)
(* Text (StdString) is a sequence of pieces: paths are sequences of        *)
(* one-character strings, fixed literals (a JSON fragment, an id prefix, a *)
(* reason phrase) are one piece each.  Splitting, prefix tests and         *)
(* concatenation are computed on these sequences.  A null pointer is the   *)
(* value Null.                                                             *)
(***************************************************************************)
EXTENDS Integers, Sequences, FiniteSets, TLC

VARIABLES
    pc,             \* position of the manager inside RetrieveRequest
    requestQueue,   \* HttpRequestQueue::requestQueue
    localQueue_,    \* HttpResponseQueue::localQueue_
    cloudQueue_,    \* HttpResponseQueue::cloudQueue_
    queueImpl,      \* which HttpResponseQueue of the repository is built in
    recvLog,        \* per transport, the requests ReceiveMessage returned
    sentLog,        \* per transport, the SendMessage calls made on it
    enqLog,         \* the responses passed to EnqueueResponse, in call order
    deqLog,         \* per lane, the responses the lane's dequeue returned
    dispatched,     \* the last DispatchRequest call: request, behaviour, result
    trie,           \* EndpointTrie: the nodes reachable from root
    inserted,       \* the patterns passed to EndpointTrie::Insert, in call order
    searched,       \* the last EndpointTrie::Search call: path and result
    transports,     \* which transports exist and the Start/Stop calls made on them
    mode            \* which harness drives the state

vars == <<pc, requestQueue, localQueue_, cloudQueue_, queueImpl, recvLog,
          sentLog, enqLog, deqLog, dispatched, trie, inserted, searched,
          transports, mode>>

trieVars == <<trie, inserted, searched>>

Null == [null |-> TRUE]

Transports == {"primary", "second"}

\* HttpRequestManager::server and ::secondServer.
server == "primary"
secondServer == "second"

\* Both transports are provided and no Start or Stop call was made.
TransportsIdle ==
    transports = [present |-> [t \in Transports |-> TRUE],
                  calls |-> [t \in Transports |-> <<>>]]

(***************************************************************************)
(* Bounds of the model.                                                    *)
(***************************************************************************)
MaxRequests == 2
MaxEnqueues == 3

(***************************************************************************)
(* Text helpers.                                                           *)
(***************************************************************************)
\* Characters in increasing code order (std::string comparison order).
CharOrder == <<"/", "a", "b", "u", "x", "y", "z", "{", "}">>

CharCode(c) == CHOOSE i \in 1..Len(CharOrder) : CharOrder[i] = c

RECURSIVE StrLess(_, _)
StrLess(s, t) ==
    IF t = <<>> THEN FALSE
    ELSE IF s = <<>> THEN TRUE
    ELSE IF CharCode(Head(s)) < CharCode(Head(t)) THEN TRUE
    ELSE IF CharCode(Head(s)) > CharCode(Head(t)) THEN FALSE
    ELSE StrLess(Tail(s), Tail(t))

\* std::string::find(ch, start), positions from 1; 0 stands for npos.
RECURSIVE FindChar(_, _, _)
FindChar(s, ch, start) ==
    IF start > Len(s) THEN 0
    ELSE IF s[start] = ch THEN start
    ELSE FindChar(s, ch, start + 1)

\* requestId.find(prefix) == 0
StartsWith(s, prefix) ==
    /\ Len(s) >= Len(prefix)
    /\ SubSeq(s, 1, Len(prefix)) = prefix

\* The keys of a std::map in iteration (key) order.
RECURSIVE SortedKeys(_)
SortedKeys(keys) ==
    IF keys = {} THEN <<>>
    ELSE LET first == CHOOSE k \in keys : \A o \in keys \ {k} : StrLess(k, o)
         IN <<first>> \o SortedKeys(keys \ {first})

MapPut(f, k, v) == [x \in (DOMAIN f) \cup {k} |-> IF x = k THEN v ELSE f[x]]

\* Mutant of MapErase: nothing is erased.
MapErase_Keep(f, k) == f

MapErase(f, k) == [x \in (DOMAIN f) \ {k} |-> f[x]]

EmptyMap == [x \in {} |-> <<>>]

(***************************************************************************)
(* EndpointTrie.                                                           *)
(***************************************************************************)
NewNode ==
    [literalChildren |-> EmptyMap, variableChildren |-> EmptyMap,
     endpointPattern |-> <<>>, isEndpoint |-> FALSE, literalChildrenCount |-> 0]

\* A trie is the sequence of its nodes; the root is node 1.
NewTrie == <<NewNode>>

\* Mutant of SplitFrom: empty segments are kept.
RECURSIVE SplitFrom_KeepEmpty(_, _, _)
SplitFrom_KeepEmpty(current, start, segments) ==
    IF ~(start <= Len(current)) THEN segments
    ELSE LET pos == FindChar(current, "/", start) IN
         IF pos = 0
         THEN Append(segments, SubSeq(current, start, Len(current)))
         ELSE SplitFrom_KeepEmpty(current, pos + 1,
                                  Append(segments, SubSeq(current, start, pos - 1)))

RECURSIVE SplitFrom(_, _, _)
SplitFrom(current, start, segments) ==
    IF ~(start <= Len(current)) THEN segments
    ELSE LET pos == FindChar(current, "/", start) IN
         IF pos = 0
         THEN LET segment == SubSeq(current, start, Len(current)) IN
              IF segment # <<>> THEN Append(segments, segment) ELSE segments
         ELSE LET segment == SubSeq(current, start, pos - 1) IN
              SplitFrom(current, pos + 1,
                        IF segment # <<>> THEN Append(segments, segment)
                        ELSE segments)

SplitPath(path) ==
    IF path = <<>> \/ path = <<"/">> THEN <<>>
    ELSE LET stripped == IF path[1] = "/" THEN Tail(path) ELSE path
             hasTrailingSlash ==
                 stripped # <<>> /\ stripped[Len(stripped)] = "/"
             current == IF hasTrailingSlash
                        THEN SubSeq(stripped, 1, Len(stripped) - 1)
                        ELSE stripped
             segments == SplitFrom(current, 1, <<>>)
         IN IF hasTrailingSlash THEN Append(segments, <<>>) ELSE segments

IsVariableSegment(segment) ==
    /\ Len(segment) >= 2
    /\ segment[1] = "{"
    /\ segment[Len(segment)] = "}"

\* Mutant of ExtractVariableName: the braces are kept.
ExtractVariableName_WithBraces(segment) ==
    IF IsVariableSegment(segment) THEN segment ELSE <<>>

ExtractVariableName(segment) ==
    IF IsVariableSegment(segment)
    THEN SubSeq(segment, 2, Len(segment) - 1)
    ELSE <<>>

\* Mutant of GetOrCreateLiteralChild: a child is created on every call.
GetOrCreateLiteralChild_AlwaysCreate(nodes, n, segment) ==
    [nodes |-> Append([nodes EXCEPT
                 ![n].literalChildren = MapPut(@, segment, Len(nodes) + 1),
                 ![n].literalChildrenCount = @ + 1], NewNode),
     child |-> Len(nodes) + 1]

\* Both return the trie after the call and the index of the child.
GetOrCreateLiteralChild(nodes, n, segment) ==
    IF segment \notin DOMAIN nodes[n].literalChildren
    THEN [nodes |-> Append([nodes EXCEPT
                       ![n].literalChildren = MapPut(@, segment, Len(nodes) + 1),
                       ![n].literalChildrenCount = @ + 1], NewNode),
          child |-> Len(nodes) + 1]
    ELSE [nodes |-> nodes, child |-> nodes[n].literalChildren[segment]]

GetOrCreateVariableChild(nodes, n, variableName) ==
    IF variableName \notin DOMAIN nodes[n].variableChildren
    THEN [nodes |-> Append([nodes EXCEPT
                       ![n].variableChildren = MapPut(@, variableName, Len(nodes) + 1)],
                       NewNode),
          child |-> Len(nodes) + 1]
    ELSE [nodes |-> nodes, child |-> nodes[n].variableChildren[variableName]]

\* 0 stands for nullptr.
GetLiteralChild(nodes, n, segment) ==
    IF segment \in DOMAIN nodes[n].literalChildren
    THEN nodes[n].literalChildren[segment]
    ELSE 0

SetEndpointPattern(nodes, n, pattern) ==
    [nodes EXCEPT ![n].endpointPattern = pattern, ![n].isEndpoint = TRUE]

RECURSIVE InsertFrom(_, _, _, _)
InsertFrom(nodes, current, segments, i) ==
    IF i > Len(segments) THEN [nodes |-> nodes, child |-> current]
    ELSE LET segment == segments[i]
             r == IF IsVariableSegment(segment)
                  THEN GetOrCreateVariableChild(nodes, current,
                                                ExtractVariableName(segment))
                  ELSE GetOrCreateLiteralChild(nodes, current, segment)
         IN InsertFrom(r.nodes, r.child, segments, i + 1)

Insert(nodes, pattern) ==
    LET r == InsertFrom(nodes, 1, SplitPath(pattern), 1)
    IN SetEndpointPattern(r.nodes, r.child, pattern)

\* EndpointMatchResult; ref is the by-reference variables map as the call
\* leaves it (bindings of abandoned branches erased).
NoMatch(ref) == [found |-> FALSE, pattern |-> <<>>, variables |-> EmptyMap, ref |-> ref]

Match(pattern, variables) ==
    [found |-> TRUE, pattern |-> pattern, variables |-> variables, ref |-> variables]

\* Mutant of PreferLiteral: the result through the variable children wins.
PreferLiteral_VariableFirst(viaLiteral, viaVariables) ==
    IF viaVariables.found THEN viaVariables ELSE viaLiteral

\* SearchRecursive on a non-empty segment: the result through the literal
\* child is returned when it is found, else the result of the loop over
\* the variable children.
PreferLiteral(viaLiteral, viaVariables) ==
    IF viaLiteral.found THEN viaLiteral ELSE viaVariables

\* Mutant of SentinelMatches: bound variables are not looked at.
SentinelMatches_IgnoreVariables(nodes, node, variables) ==
    nodes[node].isEndpoint

\* SearchRecursive on the trailing empty segment: the condition to match.
SentinelMatches(nodes, node, variables) ==
    nodes[node].isEndpoint /\ DOMAIN variables = {}

RECURSIVE SearchRecursive(_, _, _, _, _)
RECURSIVE TryVariableChildren(_, _, _, _, _, _, _)

\* The loop over GetVariableChildren(): bind, recurse, erase on failure.
TryVariableChildren(nodes, node, names, k, segments, index, variables) ==
    IF k > Len(names) THEN NoMatch(variables)
    ELSE LET varName == names[k]
             varChild == nodes[node].variableChildren[varName]
             result == SearchRecursive(nodes, varChild, segments, index + 1,
                                       MapPut(variables, varName, segments[index]))
         IN IF result.found THEN result
            ELSE TryVariableChildren(nodes, node, names, k + 1, segments, index,
                                     MapErase(result.ref, varName))

SearchRecursive(nodes, node, segments, index, variables) ==
    IF index > Len(segments)
    THEN IF nodes[node].isEndpoint
         THEN Match(nodes[node].endpointPattern, variables)
         ELSE NoMatch(variables)
    ELSE LET currentSegment == segments[index]
             names == SortedKeys(DOMAIN nodes[node].variableChildren)
         IN IF currentSegment = <<>>
            THEN IF index + 1 > Len(segments)
                 THEN IF SentinelMatches(nodes, node, variables)
                      THEN Match(nodes[node].endpointPattern, variables)
                      ELSE NoMatch(variables)
                 ELSE TryVariableChildren(nodes, node, names, 1, segments,
                                          index, variables)
            ELSE LET literalChild == GetLiteralChild(nodes, node, currentSegment)
                     viaLiteral ==
                         IF literalChild # 0
                         THEN SearchRecursive(nodes, literalChild, segments,
                                              index + 1, variables)
                         ELSE NoMatch(variables)
                 IN PreferLiteral(viaLiteral,
                                  TryVariableChildren(nodes, node, names, 1, segments,
                                                      index, viaLiteral.ref))

Search(nodes, path) ==
    LET r == SearchRecursive(nodes, 1, SplitPath(path), 1, EmptyMap)
    IN [found |-> r.found, pattern |-> r.pattern, variables |-> r.variables]

NoSearch == [called |-> FALSE, path |-> <<>>, result |-> Null]

\* The EndpointTrie after its constructor, not yet called.
TrieIdle ==
    /\ trie = NewTrie
    /\ inserted = <<>>
    /\ searched = NoSearch

(***************************************************************************)
(* HttpStatus, ResponseEntity and its conversion to a wire response.       *)
(***************************************************************************)
LocalServer == "LocalServer"
CloudServer == "CloudServer"

\* HttpStatus is an enum class over UInt: a status is its number.
StatusToInt(status) == status

GetStatusMessage(code) ==
    CASE code = 200 -> <<"OK">>
      [] code = 201 -> <<"Created">>
      [] code = 404 -> <<"Not Found">>
      [] code = 405 -> <<"Method Not Allowed">>
      [] code = 500 -> <<"Internal Server Error">>
      [] OTHER -> <<"Unknown">>

ResponseEntity(status, body) == [status |-> status, headers |-> EmptyMap, body |-> body]

NotFound(body) == ResponseEntity(404, body)

InternalServerError(body) == ResponseEntity(500, body)

\* SerializationUtility::Serialize<StdString>: strings verbatim.
Serialize(body) == body

SimpleHttpResponse(requestId, source, statusCode, statusMessage, headers, body) ==
    [requestId |-> requestId, source |-> source, statusCode |-> statusCode,
     statusMessage |-> statusMessage, headers |-> headers, body |-> body]

ToHttpResponse(entity) ==
    LET status == entity.status
        statusCode == StatusToInt(status)
        statusMessage == GetStatusMessage(status)
        headers == entity.headers
        bodyStr == Serialize(entity.body)
        emptyRequestId == <<>>
    IN SimpleHttpResponse(emptyRequestId, LocalServer, statusCode, statusMessage,
                          headers, bodyStr)

ToHttpResponseWithId(requestId, entity) ==
    LET status == entity.status
        statusCode == StatusToInt(status)
        statusMessage == GetStatusMessage(status)
        headers == entity.headers
        bodyStr == Serialize(entity.body)
    IN SimpleHttpResponse(requestId, LocalServer, statusCode, statusMessage,
                          headers, bodyStr)

SetRequestId(response, requestId) == [response EXCEPT !.requestId = requestId]

(***************************************************************************)
(* HttpRequestDispatcher.                                                  *)
(***************************************************************************)
HttpMethods ==
    {"GET", "POST", "PUT", "PATCH", "DELETE", "OPTIONS", "HEAD", "TRACE", "CONNECT"}

PathA == <<"/", "a">>
PathB == <<"/", "b">>
PathUX == <<"/", "u", "/", "{", "x", "}">>

\* The routes the generated InitializeMappings registers: per method, the
\* map from pattern to adapter; an adapter is named by the (method, pattern)
\* it was registered for.  /a is served under two methods, /b under PUT alone.
RegisteredPatterns(m) ==
    CASE m = "GET" -> {PathA, PathUX}
      [] m = "POST" -> {PathA}
      [] m = "PUT" -> {PathB}
      [] OTHER -> {}

InitializeMappings ==
    [m \in HttpMethods |->
        [p \in RegisteredPatterns(m) |-> [method |-> m, pattern |-> p]]]

getMappings == InitializeMappings["GET"]
postMappings == InitializeMappings["POST"]
putMappings == InitializeMappings["PUT"]
patchMappings == InitializeMappings["PATCH"]
deleteMappings == InitializeMappings["DELETE"]
optionsMappings == InitializeMappings["OPTIONS"]
headMappings == InitializeMappings["HEAD"]
traceMappings == InitializeMappings["TRACE"]
connectMappings == InitializeMappings["CONNECT"]

RECURSIVE InsertAll(_, _)
InsertAll(nodes, patterns) ==
    IF patterns = <<>> THEN nodes
    ELSE InsertAll(Insert(nodes, Head(patterns)), Tail(patterns))

InsertMappingsToTrie ==
    LET all(map) == SortedKeys(DOMAIN map)
    IN InsertAll(NewTrie,
                 all(getMappings) \o all(postMappings) \o all(putMappings)
                 \o all(patchMappings) \o all(deleteMappings)
                 \o all(optionsMappings) \o all(headMappings)
                 \o all(traceMappings) \o all(connectMappings))

endpointTrie == InsertMappingsToTrie

\* What a registered adapter does when it is called: it returns a response
\* built from the handler's envelope, returns no response, or fails.
AdapterId == <<"adapter_", "7">>
HandlerBody == <<"o", "k">>

Behaviours ==
    [kind : {"respond"}, status : {200, 201}, requestId : {<<>>, AdapterId}]
    \cup {[kind |-> "null"], [kind |-> "std_exception"], [kind |-> "other_exception"]}

ExceptionWhat == <<"boom">>

\* The adapter of (method, pattern) called with (payload, variables).
Adapter(behaviour, payload, variables) ==
    CASE behaviour.kind = "respond" ->
            [kind |-> "returned",
             response |->
                IF behaviour.requestId = <<>>
                THEN ToHttpResponse(ResponseEntity(behaviour.status, HandlerBody))
                ELSE ToHttpResponseWithId(behaviour.requestId,
                                          ResponseEntity(behaviour.status, HandlerBody))]
      [] behaviour.kind = "null" -> [kind |-> "returned", response |-> Null]
      [] behaviour.kind = "std_exception" -> [kind |-> "std_exception", what |-> ExceptionWhat]
      [] OTHER -> [kind |-> "other_exception"]

\* Mutant of MappingsOf: the POST case looks in the GET map.
MappingsOf_PostUsesGet(method) ==
    CASE method = "GET" -> getMappings
      [] method = "POST" -> getMappings
      [] method = "PUT" -> putMappings
      [] OTHER -> EmptyMap

\* The switch on request->GetMethod(): the map looked up for the method;
\* a value outside the enumeration reaches no case.
MappingsOf(method) ==
    CASE method = "GET" -> getMappings
      [] method = "POST" -> postMappings
      [] method = "PUT" -> putMappings
      [] method = "PATCH" -> patchMappings
      [] method = "DELETE" -> deleteMappings
      [] method = "OPTIONS" -> optionsMappings
      [] method = "HEAD" -> headMappings
      [] method = "TRACE" -> traceMappings
      [] method = "CONNECT" -> connectMappings
      [] OTHER -> EmptyMap

NotFoundJson(url) ==
    <<"{", "\"error\":\"Not Found\"", ",\"message\":\"",
      "No pattern matched for URL: ">> \o url \o <<"\"}">>

InternalServerErrorJson(errorMessage) ==
    <<"{", "\"error\":\"Internal Server Error\"", ",\"message\":\"">>
    \o errorMessage \o <<"\"}">>

\* Mutant of NotFoundResponse: the request id is not copied.
NotFoundResponse_NoId(request) ==
    ToHttpResponse(NotFound(NotFoundJson(request.path)))

\* The not-found branch.
NotFoundResponse(request) ==
    LET errorJson == NotFoundJson(request.path)
        response == ToHttpResponse(NotFound(errorJson))
        requestId == request.requestId
    IN IF requestId # <<>> THEN SetRequestId(response, requestId) ELSE response

\* Mutant of StampRequestId: the id is set whether or not one is there.
StampRequestId_Always(response, requestId) ==
    IF response # Null /\ requestId # <<>>
    THEN SetRequestId(response, requestId)
    ELSE response

\* "If response was created without request ID, set it now".
StampRequestId(response, requestId) ==
    IF response # Null /\ requestId # <<>> /\ response.requestId = <<>>
    THEN SetRequestId(response, requestId)
    ELSE response

\* The two catch clauses.
CatchResponse(failure, requestId) ==
    LET errorJson == IF failure.kind = "std_exception"
                     THEN InternalServerErrorJson(failure.what)
                     ELSE InternalServerErrorJson(<<"Unknown exception occurred">>)
        response == ToHttpResponse(InternalServerError(errorJson))
    IN IF response # Null /\ requestId # <<>>
       THEN SetRequestId(response, requestId)
       ELSE response

\* Mutant of Escapes: the catch (...) clause is missing.
Escapes_NoCatchAll(failure) == failure.kind = "other_exception"

\* Whether a failure of the adapter leaves DispatchRequest as an exception.
Escapes(failure) == FALSE

\* DispatchRequest: the response returned (Null for nullptr), the adapter
\* calls made, and whether an exception left the call.
DispatchRequest(request, behaviour) ==
    LET url == request.path
        payload == request.body
        result == Search(endpointTrie, url)
    IN IF result.found = FALSE
       THEN [response |-> NotFoundResponse(request), invoked |-> <<>>, raised |-> FALSE]
       ELSE LET variables == result.variables
                patternUrl == result.pattern
                requestId == request.requestId
            IN IF patternUrl \notin DOMAIN MappingsOf(request.method)
               THEN [response |-> Null, invoked |-> <<>>, raised |-> FALSE]
               ELSE LET call == [adapter |-> MappingsOf(request.method)[patternUrl],
                                 payload |-> payload, variables |-> variables]
                        outcome == Adapter(behaviour, payload, variables)
                    IN IF outcome.kind = "returned"
                       THEN [response |-> StampRequestId(outcome.response, requestId),
                             invoked |-> <<call>>, raised |-> FALSE]
                       ELSE IF Escapes(outcome)
                       THEN [response |-> Null, invoked |-> <<call>>, raised |-> TRUE]
                       ELSE [response |-> CatchResponse(outcome, requestId),
                             invoked |-> <<call>>, raised |-> FALSE]

(***************************************************************************)
(* Requests.                                                               *)
(***************************************************************************)
Sources == {LocalServer, CloudServer}

LocalId == <<"local_", "1">>
CloudId == <<"cloud_", "1">>

RequestMethods == {"GET", "POST", "PUT", "DELETE"}

RequestPaths ==
    {PathA, PathB, <<"/", "u", "/", "b">>, <<"/", "u", "/", "a", "/">>,
     <<"/", "z">>, <<"/", "a", "/">>}

RequestBodies == {<<>>, <<"{", "}">>}

HttpRequest(method, path, body, requestId, source) ==
    [method |-> method, path |-> path, body |-> body, requestId |-> requestId,
     source |-> source]

\* The requests handed to DispatchRequest directly.
Requests ==
    {HttpRequest(m, p, b, i, s) :
        m \in RequestMethods, p \in RequestPaths, b \in RequestBodies,
        i \in {<<>>, LocalId, CloudId}, s \in Sources}

(***************************************************************************)
(* DispatchRequest called on its own.                                      *)
(***************************************************************************)
\* Mutant of HasMapping: the find() test is skipped.
HasMapping_Always(mappings, patternUrl) == TRUE

\* mappings.find(patternUrl) != mappings.end()
HasMapping(mappings, patternUrl) == patternUrl \in DOMAIN mappings

\* A default-constructed std::function.
EmptyAdapter == [method |-> "none", pattern |-> <<>>]

\* The map after mappings[patternUrl]: operator[] of the unordered map adds
\* a default-constructed entry when the key is absent.
Subscript(mappings, patternUrl) ==
    IF patternUrl \in DOMAIN mappings THEN mappings
    ELSE MapPut(mappings, patternUrl, EmptyAdapter)

\* The method maps of the dispatcher after DispatchRequest(request): the
\* only non-const access is mappings[patternUrl] in the case of the
\* request's method, behind the find() test.
MappingsAfterDispatch(mappings, nodes, request) ==
    LET result == Search(nodes, request.path)
    IN IF result.found = FALSE THEN mappings
       ELSE IF request.method \notin DOMAIN mappings THEN mappings
       ELSE IF ~HasMapping(mappings[request.method], result.pattern) THEN mappings
       ELSE [mappings EXCEPT ![request.method] = Subscript(@, result.pattern)]

\* The trie of the dispatcher after DispatchRequest(request): Search is a
\* const member function and takes the trie as it is.
TrieAfterDispatch(nodes, request) == nodes

NoDispatch == [request |-> Null, behaviour |-> Null, result |-> Null]

\* The inputs of the call are drawn here; CallDispatchRequest makes the call.
DispatchInit ==
    /\ mode = "dispatcher"
    /\ pc = "idle"
    /\ requestQueue = <<>>
    /\ localQueue_ = <<>>
    /\ cloudQueue_ = <<>>
    /\ queueImpl = "source"
    /\ recvLog = [s \in Sources |-> <<>>]
    /\ sentLog = [s \in Sources |-> <<>>]
    /\ enqLog = <<>>
    /\ deqLog = [s \in Sources |-> <<>>]
    /\ TrieIdle
    /\ TransportsIdle
    /\ \E request \in Requests, behaviour \in Behaviours :
          dispatched = [request |-> request, behaviour |-> behaviour,
                        result |-> Null,
                        mappings |-> InitializeMappings,
                        endpointTrie |-> endpointTrie]

CallDispatchRequest ==
    /\ mode = "dispatcher"
    /\ dispatched.result = Null
    /\ dispatched' = [dispatched EXCEPT
                         !.result = DispatchRequest(dispatched.request,
                                                    dispatched.behaviour),
                         !.mappings = MappingsAfterDispatch(@, dispatched.endpointTrie,
                                                            dispatched.request),
                         !.endpointTrie = TrieAfterDispatch(@, dispatched.request)]
    /\ UNCHANGED <<trieVars, transports, pc, requestQueue, localQueue_, cloudQueue_, queueImpl,
                   recvLog, sentLog, enqLog, deqLog, mode>>

DispatchNext == CallDispatchRequest

DispatchSpec == DispatchInit /\ [][DispatchNext]_vars

\* DispatchRequest has returned (or raised) for the request in dispatched.
Called == dispatched.request # Null /\ dispatched.result # Null

(***************************************************************************)
(* Claims about DispatchRequest (checked under DispatchSpec).              *)
(***************************************************************************)
TheRequest == dispatched.request
TheResult == dispatched.result
TheMatch == Search(endpointTrie, TheRequest.path)
AdapterWasCalled == Called /\ TheResult.invoked # <<>>
\* What the adapter handed back to DispatchRequest.
AdapterOutcome ==
    Adapter(dispatched.behaviour, TheRequest.body, TheMatch.variables)

Contains(text, piece) == \E i \in 1..Len(text) : text[i] = piece

\* C2: the wire response DispatchRequest returns has the source of the
\* request it answers, on the success, 404 and 500 paths alike.
C2_ResponseSourceIsRequestSource ==
    (Called /\ TheResult.response # Null)
        => TheResult.response.source = TheRequest.source

C7_MethodNotServedIsAnError ==
    (Called /\ TheMatch.found
       /\ TheMatch.pattern \notin DOMAIN InitializeMappings[TheRequest.method])
        => /\ TheResult.response # Null
           /\ TheResult.response.statusCode >= 400

\* C8: a path no pattern matches is answered with status 404, the body
\* {"error":"Not Found","message":"No pattern matched for URL: <path>"} and
\* the request's id, and no adapter is called.
C8_NoPatternMatchIs404 ==
    (Called /\ ~TheMatch.found)
        => /\ TheResult.response # Null
           /\ TheResult.response.statusCode = 404
           /\ TheResult.response.body =
                <<"{", "\"error\":\"Not Found\"", ",\"message\":\"",
                  "No pattern matched for URL: ">> \o TheRequest.path \o <<"\"}">>
           /\ TheResult.response.requestId = TheRequest.requestId
           /\ TheResult.invoked = <<>>
           /\ ~TheResult.raised

C8_Witness_NotFound ==
    /\ Called
    /\ ~TheMatch.found
    /\ TheRequest.path = <<"/", "z">>
    /\ TheRequest.requestId = LocalId
    /\ TheResult.response.statusCode = 404

\* C9: when the adapter that was called fails, with a typed or an opaque
\* error, DispatchRequest returns a response with status 500 whose body
\* contains "error":"Internal Server Error" and whose id is the request's;
\* the failure does not leave DispatchRequest.
C9_HandlerFailureIs500 ==
    (AdapterWasCalled /\ AdapterOutcome.kind # "returned")
        => /\ ~TheResult.raised
           /\ TheResult.response # Null
           /\ TheResult.response.statusCode = 500
           /\ Contains(TheResult.response.body, "\"error\":\"Internal Server Error\"")
           /\ TheResult.response.requestId = TheRequest.requestId

C9_Witness_OpaqueFailure ==
    /\ AdapterWasCalled
    /\ AdapterOutcome.kind = "other_exception"
    /\ TheRequest.requestId = LocalId
    /\ TheResult.response # Null
    /\ TheResult.response.statusCode = 500

\* C10: DispatchRequest calls at most one adapter, the one registered under
\* the request's own method for the pattern the trie returned, with the
\* request body and the variables of that match.
C10_AdapterSelection ==
    Called
        => /\ Len(TheResult.invoked) <= 1
           /\ \A i \in 1..Len(TheResult.invoked) :
                /\ TheMatch.found
                /\ TheResult.invoked[i].adapter =
                      [method |-> TheRequest.method, pattern |-> TheMatch.pattern]
                /\ TheMatch.pattern \in RegisteredPatterns(TheRequest.method)
                /\ TheResult.invoked[i].payload = TheRequest.body
                /\ TheResult.invoked[i].variables = TheMatch.variables

\* POST /a is served although GET registers /a too; only the POST adapter runs.
C10_Witness_SharedPattern ==
    /\ AdapterWasCalled
    /\ TheRequest.method = "POST"
    /\ TheMatch.pattern = PathA
    /\ PathA \in RegisteredPatterns("GET")
    /\ TheResult.invoked[1].adapter.method = "POST"

(***************************************************************************)
(* HttpRequestQueue and HttpResponseQueue.                                 *)
(***************************************************************************)
\* HttpRequestQueue::EnqueueRequest: the queue after the call.
EnqueueRequest(queue, request) ==
    IF request = Null THEN queue ELSE Append(queue, request)

HasRequests(queue) == queue # <<>>

kLocalRequestIdPrefix == <<"local_">>
kCloudRequestIdPrefix == <<"cloud_">>

\* Mutant of Push: the response goes to the front of the queue.
Push_Front(queue, response) == <<response>> \o queue

\* std::queue::push
Push(queue, response) == Append(queue, response)

\* Mutant of EnqueueBySource: a response that is not LocalServer's goes to
\* the cloud lane.
EnqueueBySource_ElseCloud(lanes, response) ==
    IF response = Null THEN lanes
    ELSE IF response.source = LocalServer
    THEN [lanes EXCEPT !.local = Push(@, response)]
    ELSE [lanes EXCEPT !.cloud = Push(@, response)]

\* Mutant of EnqueueBySource: a local response is pushed twice.
EnqueueBySource_Twice(lanes, response) ==
    IF response = Null THEN lanes
    ELSE IF response.source = LocalServer
    THEN [lanes EXCEPT !.local = Push(Push(@, response), response)]
    ELSE IF response.source = CloudServer
    THEN [lanes EXCEPT !.cloud = Push(@, response)]
    ELSE lanes

\* HttpResponseQueue::EnqueueResponse routing by GetRequestSource(); lanes is
\* [local, cloud], the two queues.
EnqueueBySource(lanes, response) ==
    IF response = Null THEN lanes
    ELSE IF response.source = LocalServer
    THEN [lanes EXCEPT !.local = Push(@, response)]
    ELSE IF response.source = CloudServer
    THEN [lanes EXCEPT !.cloud = Push(@, response)]
    ELSE lanes

\* HttpResponseQueue::EnqueueResponse routing by the request-id prefix.
EnqueueByPrefix(lanes, response) ==
    IF response = Null THEN lanes
    ELSE IF StartsWith(response.requestId, kLocalRequestIdPrefix)
    THEN [lanes EXCEPT !.local = Push(@, response)]
    ELSE IF StartsWith(response.requestId, kCloudRequestIdPrefix)
    THEN [lanes EXCEPT !.cloud = Push(@, response)]
    ELSE lanes

\* EnqueueResponse of the single-queue HttpResponseQueue; its responseQueue
\* is held in the field local, the field cloud stays empty.
EnqueueSingle(lanes, response) ==
    IF response = Null THEN lanes
    ELSE [lanes EXCEPT !.local = Push(@, response)]

\* The EnqueueResponse of the HttpResponseQueue that is built in.
EnqueueResponse(impl, lanes, response) ==
    IF impl = "prefix" THEN EnqueueByPrefix(lanes, response)
    ELSE IF impl = "single" THEN EnqueueSingle(lanes, response)
    ELSE EnqueueBySource(lanes, response)

\* Mutant of DequeueLane: the front response is returned and left in the lane.
DequeueLane_Peek(queue) ==
    IF queue = <<>> THEN [r |-> Null, queue |-> queue]
    ELSE [r |-> Head(queue), queue |-> queue]

\* DequeueLocalResponse / DequeueCloudResponse on one lane: the response
\* returned (Null when the lane is empty) and the lane after the call.
DequeueLane(queue) ==
    IF queue = <<>> THEN [r |-> Null, queue |-> queue]
    ELSE [r |-> Head(queue), queue |-> Tail(queue)]

IsEmpty(lanes) == lanes.local = <<>> /\ lanes.cloud = <<>>

HasResponses(lanes) == ~IsEmpty(lanes)

Lanes == [local |-> localQueue_, cloud |-> cloudQueue_]

(***************************************************************************)
(* The response queue called on its own: any sequence of EnqueueResponse,  *)
(* DequeueLocalResponse and DequeueCloudResponse.                          *)
(***************************************************************************)
UnknownSource == "Unknown"

QueueResponses ==
    {SimpleHttpResponse(i, s, 200, GetStatusMessage(200), EmptyMap, HandlerBody) :
        i \in {LocalId, CloudId}, s \in {LocalServer, CloudServer, UnknownSource}}

QueueInitWith(impl) ==
    /\ mode = "queue"
    /\ pc = "idle"
    /\ requestQueue = <<>>
    /\ localQueue_ = <<>>
    /\ cloudQueue_ = <<>>
    /\ queueImpl = impl
    /\ recvLog = <<>>
    /\ sentLog = <<>>
    /\ enqLog = <<>>
    /\ deqLog = [s \in Sources |-> <<>>]
    /\ dispatched = NoDispatch
    /\ TrieIdle
    /\ TransportsIdle

CallEnqueueResponse ==
    /\ mode = "queue"
    /\ Len(enqLog) < MaxEnqueues
    /\ \E response \in QueueResponses \cup {Null} :
          LET after == EnqueueResponse(queueImpl, Lanes, response) IN
          /\ localQueue_' = after.local
          /\ cloudQueue_' = after.cloud
          /\ enqLog' = Append(enqLog, response)
    /\ UNCHANGED <<trieVars, transports, pc, requestQueue, queueImpl, recvLog, sentLog, deqLog,
                   dispatched, mode>>

CallDequeueLocalResponse ==
    /\ mode = "queue"
    /\ LET d == DequeueLane(localQueue_) IN
          /\ localQueue_' = d.queue
          /\ deqLog' = IF d.r = Null THEN deqLog
                       ELSE [deqLog EXCEPT ![LocalServer] = Append(@, d.r)]
    /\ UNCHANGED <<trieVars, transports, pc, requestQueue, cloudQueue_, queueImpl, recvLog, sentLog,
                   enqLog, dispatched, mode>>

CallDequeueCloudResponse ==
    /\ mode = "queue"
    /\ LET d == DequeueLane(cloudQueue_) IN
          /\ cloudQueue_' = d.queue
          /\ deqLog' = IF d.r = Null THEN deqLog
                       ELSE [deqLog EXCEPT ![CloudServer] = Append(@, d.r)]
    /\ UNCHANGED <<trieVars, transports, pc, requestQueue, localQueue_, queueImpl, recvLog, sentLog,
                   enqLog, dispatched, mode>>

QueueNext ==
    \/ CallEnqueueResponse
    \/ CallDequeueLocalResponse
    \/ CallDequeueCloudResponse

\* The queue of HttpResponseQueue.h (lanes keyed by source).
QueueSpec == QueueInitWith("source") /\ [][QueueNext]_vars

\* The queue of the request-id prefix variant.
QueuePrefixSpec == QueueInitWith("prefix") /\ [][QueueNext]_vars

\* The responses of the enqueue history that belong to the lane of source s.
EnqueuedFor(s) == SelectSeq(enqLog, LAMBDA r : r # Null /\ r.source = s)

LaneOf(s) == IF s = LocalServer THEN localQueue_ ELSE cloudQueue_

\* C3: DequeueCloudResponse never returns a response whose source is
\* LocalServer, and DequeueLocalResponse never one whose source is
\* CloudServer.
C3_NoCrossLaneDequeue ==
    /\ \A i \in 1..Len(deqLog[CloudServer]) :
          deqLog[CloudServer][i].source # LocalServer
    /\ \A i \in 1..Len(deqLog[LocalServer]) :
          deqLog[LocalServer][i].source # CloudServer

SourceOf(transport) == IF transport = "primary" THEN LocalServer ELSE CloudServer

\* HttpResponseProcessor::server, set from ServerProvider::GetSecondServer().
responseServer == "second"

Received == Len(recvLog["primary"]) + Len(recvLog["second"])

Digit(n) == CASE n = 1 -> "1" [] n = 2 -> "2" [] n = 3 -> "3" [] OTHER -> "n"

\* The id the transport gives its next request: its prefix and a number
\* not used before.
FreshId(transport) ==
    (IF transport = "primary" THEN kLocalRequestIdPrefix ELSE kCloudRequestIdPrefix)
    \o <<Digit(Received + 1)>>

ManagerMethods == {"GET", "PUT"}
ManagerPaths == {PathA, <<"/", "z">>}

\* What ReceiveMessage of a transport may return: no request, or a request
\* tagged with the transport's source.
ReceiveMessage(transport) ==
    {Null} \cup
    IF Received < MaxRequests
    THEN {HttpRequest(m, p, <<>>, FreshId(transport), SourceOf(transport)) :
            m \in ManagerMethods, p \in ManagerPaths}
    ELSE {}

\* IHttpResponse::ToHttpString: status line, headers, blank line, body.
ToHttpString(response) ==
    <<"HTTP/1.1 ">> \o <<response.statusCode>> \o <<" ">> \o response.statusMessage
    \o <<"\r\n", "\r\n">> \o response.body

Init ==
    /\ mode = "manager"
    /\ pc = <<server, "receive">>
    /\ requestQueue = <<>>
    /\ localQueue_ = <<>>
    /\ cloudQueue_ = <<>>
    /\ queueImpl = "source"
    /\ recvLog = [t \in Transports |-> <<>>]
    /\ sentLog = [t \in Transports |-> <<>>]
    /\ enqLog = <<>>
    /\ deqLog = [s \in Sources |-> <<>>]
    /\ dispatched = NoDispatch
    /\ TrieIdle
    /\ TransportsIdle

\* Where RetrieveRequest goes on after its work for one transport: to the
\* second transport, or it returns and is called again.
AfterTransport(transport) ==
    IF transport = server THEN <<secondServer, "receive">> ELSE <<server, "receive">>

\* RetrieveRequest: ReceiveMessage of the transport and, for a request,
\* EnqueueRequest; ProcessRequest and ProcessResponse follow.
Receive ==
    /\ mode = "manager"
    /\ pc[2] = "receive"
    /\ \E request \in ReceiveMessage(pc[1]) :
          IF request # Null
          THEN /\ recvLog' = [recvLog EXCEPT ![pc[1]] = Append(@, request)]
               /\ requestQueue' = EnqueueRequest(requestQueue, request)
               /\ pc' = <<pc[1], "processRequest">>
          ELSE /\ pc' = AfterTransport(pc[1])
               /\ UNCHANGED <<recvLog, requestQueue>>
    /\ UNCHANGED <<trieVars, transports, localQueue_, cloudQueue_, queueImpl, sentLog, enqLog,
                   deqLog, dispatched, mode>>

\* One turn of the loop of HttpRequestManager::ProcessRequest with
\* HasRequests() true: HttpRequestProcessor::ProcessRequest dequeues a
\* request, dispatches it and enqueues the response; it returns true.
ProcessRequest ==
    /\ mode = "manager"
    /\ pc[2] = "processRequest"
    /\ HasRequests(requestQueue)
    /\ \E behaviour \in Behaviours :
          LET request == Head(requestQueue)
              result == DispatchRequest(request, behaviour)
              after == EnqueueResponse(queueImpl, Lanes, result.response)
          IN /\ requestQueue' = Tail(requestQueue)
             /\ dispatched' = [request |-> request, behaviour |-> behaviour,
                               result |-> result]
             /\ localQueue_' = after.local
             /\ cloudQueue_' = after.cloud
             /\ enqLog' = Append(enqLog, result.response)
    /\ UNCHANGED <<trieVars, transports, pc, queueImpl, recvLog, sentLog, deqLog, mode>>

\* HasRequests() false: HttpRequestManager::ProcessRequest returns.
ProcessRequestReturns ==
    /\ mode = "manager"
    /\ pc[2] = "processRequest"
    /\ ~HasRequests(requestQueue)
    /\ pc' = <<pc[1], "processResponse">>
    /\ UNCHANGED <<trieVars, transports, requestQueue, localQueue_, cloudQueue_, queueImpl, recvLog,
                   sentLog, enqLog, deqLog, dispatched, mode>>

\* Mutant of IsDiscardedId: an empty request id is not discarded.
IsDiscardedId_IgnoreOnly(requestId) == requestId = <<"ignore">>

\* The request ids HttpResponseProcessor::ProcessResponse does not send for.
IsDiscardedId(requestId) == requestId = <<>> \/ requestId = <<"ignore">>

\* The arguments of one SendMessage call.
SendRecord(response) ==
    [requestId |-> response.requestId, message |-> ToHttpString(response)]

\* HttpResponseProcessor::ProcessResponse: what it returns, the lanes and
\* the send log after it.  It pops the local lane and sends on its server.
ResponseProcessorProcessResponse(lanes, sent) ==
    IF IsEmpty(lanes) THEN [returns |-> FALSE, lanes |-> lanes, sent |-> sent, popped |-> Null]
    ELSE LET d == DequeueLane(lanes.local)
             after == [lanes EXCEPT !.local = d.queue]
         IN IF d.r = Null
            THEN [returns |-> FALSE, lanes |-> after, sent |-> sent, popped |-> Null]
            ELSE IF IsDiscardedId(d.r.requestId)
            THEN [returns |-> FALSE, lanes |-> after, sent |-> sent, popped |-> d.r]
            ELSE IF ToHttpString(d.r) = <<>>
            THEN [returns |-> FALSE, lanes |-> after, sent |-> sent, popped |-> d.r]
            ELSE [returns |-> FALSE, lanes |-> after,
                  sent |-> [sent EXCEPT ![responseServer] =
                              Append(@, SendRecord(d.r))],
                  popped |-> d.r]

\* One turn of the loop of HttpRequestManager::ProcessResponse; the loop
\* ends when the processor returns false.
ProcessResponse ==
    /\ mode = "manager"
    /\ pc[2] = "processResponse"
    /\ LET p == ResponseProcessorProcessResponse(Lanes, sentLog) IN
          /\ localQueue_' = p.lanes.local
          /\ cloudQueue_' = p.lanes.cloud
          /\ sentLog' = p.sent
          /\ deqLog' = IF p.popped = Null THEN deqLog
                       ELSE [deqLog EXCEPT ![LocalServer] = Append(@, p.popped)]
          /\ pc' = IF p.returns THEN pc ELSE AfterTransport(pc[1])
    /\ UNCHANGED <<trieVars, transports, requestQueue, queueImpl, recvLog, enqLog, dispatched, mode>>

Next ==
    \/ Receive
    \/ ProcessRequest
    \/ ProcessRequestReturns
    \/ ProcessResponse

Spec == Init /\ [][Next]_vars

\* The manager keeps running ticks.
LiveSpec == Spec /\ WF_vars(Next)

ReceivedIds(t) == [i \in 1..Len(recvLog[t]) |-> recvLog[t][i].requestId]
SentIds(t) == [i \in 1..Len(sentLog[t]) |-> sentLog[t][i].requestId]
InSeq(x, seq) == \E i \in 1..Len(seq) : seq[i] = x
IsPrefix(s, t) == Len(s) <= Len(t) /\ SubSeq(t, 1, Len(s)) = s

\* The ids a transport can give its requests within the bound.
PossibleIds(t) ==
    {(IF t = "primary" THEN kLocalRequestIdPrefix ELSE kCloudRequestIdPrefix)
        \o <<Digit(n)>> : n \in 1..MaxRequests}

\* C1: every request a transport's ReceiveMessage returned is eventually
\* answered by a SendMessage on that same transport carrying its id.
C1_EveryRequestAnswered ==
    \A t \in Transports : \A id \in PossibleIds(t) :
        InSeq(id, ReceivedIds(t)) ~> InSeq(id, SentIds(t))

\* C5: on each transport the ids of the SendMessage calls are, in order,
\* the ids of the requests received from it: at any moment the former is a
\* prefix of the latter.
C5_SendOrderIsReceiveOrder ==
    \A t \in Transports : IsPrefix(SentIds(t), ReceivedIds(t))

(***************************************************************************)
(* The manager called through its interface: RetrieveRequest of the        *)
(* single-transport HttpRequestManager, ProcessRequest and ProcessResponse *)
(* called in any order by the application loop, while other components may *)
(* call EnqueueResponse on the shared response queue.  Each call runs to   *)
(* its return; pc holds the record of the last call.  The build is either  *)
(* the two-lane response queue with the HttpResponseProcessor that sends   *)
(* on the second server, or the single response queue with the             *)
(* HttpResponseProcessor that sends on the default server.                 *)
(***************************************************************************)
Builds == {"source", "single"}

\* HttpResponseProcessor::ProcessResponse of the single-queue build; ok is
\* what SendMessage returns.
SingleQueueProcessResponse(lanes, sent, ok) ==
    IF lanes.local = <<>>
    THEN [returns |-> FALSE, lanes |-> lanes, sent |-> sent, popped |-> Null]
    ELSE LET d == DequeueLane(lanes.local)
             after == [lanes EXCEPT !.local = d.queue]
         IN IF d.r = Null
            THEN [returns |-> FALSE, lanes |-> after, sent |-> sent, popped |-> Null]
            ELSE IF d.r.requestId = <<>>
            THEN [returns |-> FALSE, lanes |-> after, sent |-> sent, popped |-> d.r]
            ELSE IF ToHttpString(d.r) = <<>>
            THEN [returns |-> FALSE, lanes |-> after, sent |-> sent, popped |-> d.r]
            ELSE [returns |-> ok, lanes |-> after,
                  sent |-> [sent EXCEPT ![server] = Append(@, SendRecord(d.r))],
                  popped |-> d.r]

\* The ProcessResponse of the response processor that is built in.
ProcessorProcessResponse(impl, lanes, sent, ok) ==
    IF impl = "single" THEN SingleQueueProcessResponse(lanes, sent, ok)
    ELSE ResponseProcessorProcessResponse(lanes, sent)

\* HttpRequestManager::ProcessResponse: the loop runs until the processor
\* returns false.  st is [lanes, sent, popped, processedAny]; oks are the
\* results of the SendMessage calls, in call order.
RECURSIVE ManagerProcessResponse(_, _, _)
ManagerProcessResponse(impl, st, oks) ==
    LET p == ProcessorProcessResponse(impl, st.lanes, st.sent,
                                      IF oks = <<>> THEN FALSE ELSE Head(oks))
        next == [lanes |-> p.lanes, sent |-> p.sent,
                 popped |-> IF p.popped = Null THEN st.popped
                            ELSE Append(st.popped, p.popped),
                 processedAny |-> st.processedAny \/ p.returns]
    IN IF p.returns /\ oks # <<>>
       THEN ManagerProcessResponse(impl, next, Tail(oks))
       ELSE next

\* Mutant of RequestProcessorProcessRequest: the request is dispatched and
\* left in the queue.
RequestProcessorProcessRequest_KeepsRequest(impl, queue, lanes, behaviour) ==
    IF queue = <<>>
    THEN [returns |-> FALSE, queue |-> queue, lanes |-> lanes, call |-> NoDispatch]
    ELSE CHOOSE after \in
             {[returns |-> TRUE, queue |-> queue,
               lanes |-> EnqueueResponse(impl, lanes, result.response),
               call |-> [request |-> Head(queue), behaviour |-> behaviour,
                         result |-> result]] :
                 result \in {DispatchRequest(Head(queue), behaviour)}} : TRUE

\* HttpRequestProcessor::ProcessRequest.
RequestProcessorProcessRequest(impl, queue, lanes, behaviour) ==
    IF queue = <<>>
    THEN [returns |-> FALSE, queue |-> queue, lanes |-> lanes, call |-> NoDispatch]
    ELSE CHOOSE after \in
             {[returns |-> TRUE, queue |-> Tail(queue),
               lanes |-> EnqueueResponse(impl, lanes, result.response),
               call |-> [request |-> Head(queue), behaviour |-> behaviour,
                         result |-> result]] :
                 result \in {DispatchRequest(Head(queue), behaviour)}} : TRUE

\* The loop state of HttpRequestManager::ProcessRequest after a call of the
\* request processor that returned true with the outcome p.
AfterProgress(st, p) ==
    CHOOSE next \in
        {[queue |-> q.queue, lanes |-> q.lanes,
          enq |-> Append(st.enq, q.call.result.response),
          call |-> q.call, calls |-> st.calls + 1, processedAny |-> TRUE] :
            q \in {p}} : TRUE

\* Mutant of ManagerProcessRequest: an if in place of the while, at most one
\* request is processed.
ManagerProcessRequest_Once(impl, st, behaviours, progress) ==
    IF ~HasRequests(st.queue) THEN st
    ELSE IF progress = 0 THEN [st EXCEPT !.calls = @ + 1]
    ELSE AfterProgress(st, RequestProcessorProcessRequest(impl, st.queue, st.lanes,
                                                          Head(behaviours)))

\* HttpRequestManager::ProcessRequest: the loop runs while HasRequests() and
\* the processor returns true.  st is [queue, lanes, enq, call, calls,
\* processedAny]; behaviours are what the handlers of the dispatched
\* requests do, in order; progress is the number of calls for which the
\* request processor returns true (the HttpRequestProcessor of the
\* repository returns true whenever the queue holds a request).
RECURSIVE ManagerProcessRequest(_, _, _, _)
ManagerProcessRequest(impl, st, behaviours, progress) ==
    IF ~HasRequests(st.queue) THEN st
    ELSE IF progress = 0 THEN [st EXCEPT !.calls = @ + 1]
    ELSE CHOOSE after \in
             {ManagerProcessRequest(impl, next, Tail(behaviours), progress - 1) :
                 next \in {AfterProgress(st,
                              RequestProcessorProcessRequest(impl, st.queue, st.lanes,
                                                             Head(behaviours)))}} : TRUE

\* Responses other components enqueue: one per lane and one without a
\* request id.
ApiResponses ==
    {SimpleHttpResponse(LocalId, LocalServer, 200, GetStatusMessage(200), EmptyMap, HandlerBody),
     SimpleHttpResponse(CloudId, CloudServer, 200, GetStatusMessage(200), EmptyMap, HandlerBody),
     SimpleHttpResponse(<<>>, LocalServer, 200, GetStatusMessage(200), EmptyMap, HandlerBody)}

\* What ReceiveMessage of the default server may return in this harness.
ApiReceiveMessage ==
    {r \in ReceiveMessage(server) :
        r = Null \/ (r.method = "GET" /\ Received + Len(enqLog) < MaxEnqueues)}

\* What the handlers do in this harness: answer, or throw.
ApiBehaviours ==
    {[kind |-> "respond", status |-> 200, requestId |-> <<>>], [kind |-> "std_exception"]}

\* The sizes of the queues when a call begins.
Snapshot ==
    [requests |-> Len(requestQueue), local |-> Len(localQueue_),
     cloud |-> Len(cloudQueue_)]

NoCall == [op |-> "none", returns |-> FALSE, before |-> Snapshot, info |-> 0]

ApiInit ==
    /\ mode = "api"
    /\ queueImpl \in Builds
    /\ requestQueue = <<>>
    /\ localQueue_ = <<>>
    /\ cloudQueue_ = <<>>
    /\ pc = NoCall
    /\ recvLog = [t \in Transports |-> <<>>]
    /\ sentLog = [t \in Transports |-> <<>>]
    /\ enqLog = <<>>
    /\ deqLog = [s \in Sources |-> <<>>]
    /\ dispatched = NoDispatch
    /\ TrieIdle
    /\ TransportsIdle

\* RetrieveRequest of the single-transport HttpRequestManager.
CallRetrieveRequest ==
    /\ mode = "api"
    /\ \E request \in ApiReceiveMessage :
          /\ recvLog' = IF request = Null THEN recvLog
                        ELSE [recvLog EXCEPT ![server] = Append(@, request)]
          /\ requestQueue' = EnqueueRequest(requestQueue, request)
          /\ pc' = [op |-> "RetrieveRequest", returns |-> request # Null,
                    before |-> Snapshot,
                    info |-> IF request = Null THEN 0 ELSE 1]
    /\ UNCHANGED <<trieVars, transports, localQueue_, cloudQueue_, queueImpl, sentLog, enqLog,
                   deqLog, dispatched, mode>>

\* EnqueueResponse called by another component.
CallApiEnqueueResponse ==
    /\ mode = "api"
    /\ Received + Len(enqLog) < MaxEnqueues
    /\ \E response \in ApiResponses :
          LET after == EnqueueResponse(queueImpl, Lanes, response) IN
          /\ localQueue_' = after.local
          /\ cloudQueue_' = after.cloud
          /\ enqLog' = Append(enqLog, response)
          /\ pc' = [op |-> "EnqueueResponse", returns |-> FALSE,
                    before |-> Snapshot, info |-> 0]
    /\ UNCHANGED <<trieVars, transports, requestQueue, queueImpl, recvLog, sentLog, deqLog,
                   dispatched, mode>>

\* HttpRequestManager::ProcessRequest, from call to return.
CallProcessRequest ==
    /\ mode = "api"
    /\ \E behaviours \in [1..Len(requestQueue) -> ApiBehaviours],
          progress \in 0..Len(requestQueue) :
          \E st \in {ManagerProcessRequest(queueImpl,
                        [queue |-> requestQueue, lanes |-> Lanes, enq |-> enqLog,
                         call |-> dispatched, calls |-> 0, processedAny |-> FALSE],
                        behaviours, progress)} :
             /\ requestQueue' = st.queue
             /\ localQueue_' = st.lanes.local
             /\ cloudQueue_' = st.lanes.cloud
             /\ enqLog' = st.enq
             /\ dispatched' = st.call
             /\ pc' = [op |-> "ProcessRequest", returns |-> st.processedAny,
                       before |-> Snapshot,
                       info |-> [calls |-> st.calls, progress |-> progress]]
    /\ UNCHANGED <<trieVars, transports, queueImpl, recvLog, sentLog, deqLog, mode>>

\* HttpRequestManager::ProcessResponse, from call to return.
CallProcessResponse ==
    /\ mode = "api"
    /\ \E oks \in [1..(Len(localQueue_) + 1) -> BOOLEAN] :
          \E st \in {ManagerProcessResponse(queueImpl,
                        [lanes |-> Lanes, sent |-> sentLog, popped |-> <<>>,
                         processedAny |-> FALSE], oks)} :
             /\ localQueue_' = st.lanes.local
             /\ cloudQueue_' = st.lanes.cloud
             /\ sentLog' = st.sent
             /\ deqLog' = [deqLog EXCEPT ![LocalServer] = @ \o st.popped]
             /\ pc' = [op |-> "ProcessResponse", returns |-> st.processedAny,
                       before |-> Snapshot, info |-> Len(st.popped)]
    /\ UNCHANGED <<trieVars, transports, requestQueue, queueImpl, recvLog, enqLog, dispatched, mode>>

ApiNext ==
    \/ CallRetrieveRequest
    \/ CallApiEnqueueResponse
    \/ CallProcessRequest
    \/ CallProcessResponse

ApiSpec == ApiInit /\ [][ApiNext]_vars

Returned(op) == mode = "api" /\ pc.op = op

\* C11: when manager ProcessResponse has returned, neither lane holds a
\* response that was in it when the phase began (no other call ran in
\* between, so whatever a lane holds was there before).
C11_LanesDrained ==
    (Returned("ProcessResponse") /\ queueImpl = "source")
        => (localQueue_ = <<>> /\ cloudQueue_ = <<>>)

\* The transport that owns the lane of source s.
TransportOf(s) == IF s = LocalServer THEN server ELSE secondServer

\* C12: every SendMessage call on the primary transport carries a response
\* that was popped from the local lane, and every SendMessage call on the
\* secondary transport one that was popped from the cloud lane.
C12_LaneToTransport ==
    \A s \in Sources :
        \A i \in 1..Len(sentLog[TransportOf(s)]) :
            \E j \in 1..Len(deqLog[s]) :
                SendRecord(deqLog[s][j]) = sentLog[TransportOf(s)][i]

CountIn(seq, x) == Cardinality({i \in 1..Len(seq) : seq[i] = x})

\* The number of SendMessage calls, on any transport, with the arguments e.
Sends(e) == CountIn(sentLog[server], e) + CountIn(sentLog[secondServer], e)

\* The number of EnqueueResponse calls with a response that is sent as e.
Enqueues(e) ==
    Cardinality({j \in 1..Len(enqLog) :
                    enqLog[j] # Null /\ SendRecord(enqLog[j]) = e})

\* C13: the response processor never puts a response back: a manager
\* ProcessResponse leaves in the queue exactly what it did not pop, and no
\* response is passed to SendMessage more often than it was enqueued,
\* whether SendMessage returns true or false.
C13_NoRedelivery ==
    /\ \A t \in Transports : \A i \in 1..Len(sentLog[t]) :
          Sends(sentLog[t][i]) <= Enqueues(sentLog[t][i])
    /\ Returned("ProcessResponse") =>
          /\ Len(localQueue_) = pc.before.local - pc.info
          /\ Len(cloudQueue_) = pc.before.cloud

\* Single-queue build: SendMessage returned false for the one response that
\* was sent, and the queue still holds a response.
C13_Witness_SendFailed ==
    /\ Returned("ProcessResponse")
    /\ queueImpl = "single"
    /\ ~pc.returns
    /\ pc.info = 1
    /\ Len(sentLog[server]) = 1
    /\ localQueue_ # <<>>

\* The responses EnqueueResponse has put into the queue the response
\* processor pops from: the local lane, or the single queue.
EnqueuedForProcessor ==
    IF queueImpl = "single" THEN SelectSeq(enqLog, LAMBDA r : r # Null)
    ELSE EnqueuedFor(LocalServer)

\* C14: no SendMessage call is made for a response whose request id is
\* empty, and such a response, once popped, is gone from its lane: what was
\* popped followed by what the lane holds is what was enqueued.
C14_EmptyIdDiscarded ==
    /\ \A t \in Transports : \A i \in 1..Len(sentLog[t]) :
          sentLog[t][i].requestId # <<>>
    /\ mode = "api" => deqLog[LocalServer] \o localQueue_ = EnqueuedForProcessor

\* The two-lane build popped a response without request id in the last
\* ProcessResponse and nothing was sent.
C14_Witness_Discarded ==
    /\ Returned("ProcessResponse")
    /\ queueImpl = "source"
    /\ pc.info = 1
    /\ deqLog[LocalServer][Len(deqLog[LocalServer])].requestId = <<>>
    /\ sentLog[server] = <<>>
    /\ sentLog[secondServer] = <<>>

(***************************************************************************)
(* The HttpRequestManager whose RetrieveRequest receives from the primary  *)
(* server without EnqueueRequest and then runs ProcessRequest and          *)
(* ProcessResponse; other components may call EnqueueResponse.             *)
(***************************************************************************)
\* RetrieveRequest of that manager, from call to return.
CallRetrieveRequestNoEnqueue ==
    /\ mode = "api"
    /\ \E request \in ReceiveMessage(server),
          behaviours \in [1..Len(requestQueue) -> ApiBehaviours] :
          \E rq \in {ManagerProcessRequest(queueImpl,
                        [queue |-> requestQueue, lanes |-> Lanes, enq |-> enqLog,
                         call |-> dispatched, calls |-> 0, processedAny |-> FALSE],
                        behaviours, Len(requestQueue))} :
          \E rs \in {ManagerProcessResponse(queueImpl,
                        [lanes |-> rq.lanes, sent |-> sentLog, popped |-> <<>>,
                         processedAny |-> FALSE], <<TRUE>>)} :
             /\ recvLog' = IF request = Null THEN recvLog
                           ELSE [recvLog EXCEPT ![server] = Append(@, request)]
             /\ requestQueue' = rq.queue
             /\ enqLog' = rq.enq
             /\ dispatched' = rq.call
             /\ localQueue_' = rs.lanes.local
             /\ cloudQueue_' = rs.lanes.cloud
             /\ sentLog' = rs.sent
             /\ deqLog' = [deqLog EXCEPT ![LocalServer] = @ \o rs.popped]
             /\ pc' = [op |-> "RetrieveRequest", returns |-> TRUE,
                       before |-> Snapshot,
                       info |-> IF request = Null THEN 0 ELSE 1]
    /\ UNCHANGED <<trieVars, transports, queueImpl, mode>>

NoEnqueueInit == ApiInit /\ queueImpl = "source"

NoEnqueueNext ==
    \/ CallRetrieveRequestNoEnqueue
    \/ CallApiEnqueueResponse

NoEnqueueSpec == NoEnqueueInit /\ [][NoEnqueueNext]_vars

LastOf(seq) == seq[Len(seq)]

\* C15: when RetrieveRequest has returned and ReceiveMessage gave it a
\* request, that request was put on the request queue: it is the newest
\* request of the queue, or the request processor has already taken it
\* from the queue and dispatched it.
C15_ReceivedIsEnqueued ==
    (Returned("RetrieveRequest") /\ pc.info = 1)
        => \/ requestQueue # <<>> /\ LastOf(requestQueue) = LastOf(recvLog[server])
           \/ dispatched.request = LastOf(recvLog[server])

Min(a, b) == IF a <= b THEN a ELSE b

\* C16: when manager ProcessRequest has returned, with n requests in the
\* queue at the call and a request processor that reports progress for its
\* first g calls, min(n, g) requests have left the queue, the processor
\* was called once more only if it then reported no progress, the result
\* is true iff a request was processed, and the queue is empty when the
\* processor never failed.
C16_RequestDrain ==
    Returned("ProcessRequest") =>
        LET n == pc.before.requests
            g == pc.info.progress
            done == n - Len(requestQueue)
        IN /\ done = Min(n, g)
           /\ pc.info.calls = IF g < n THEN g + 1 ELSE n
           /\ pc.returns <=> done >= 1
           /\ g >= n => requestQueue = <<>>

\* Two requests were queued, the processor reported progress once and then
\* none: one request is left.
C16_Witness_StopsAtNoProgress ==
    /\ Returned("ProcessRequest")
    /\ pc.before.requests = 2
    /\ pc.info.progress = 1
    /\ pc.info.calls = 2
    /\ pc.returns
    /\ Len(requestQueue) = 1

(***************************************************************************)
(* HttpRequestQueue called by concurrent threads.  pc gives each thread    *)
(* its call in progress, enqLog the requests in the order their push took  *)
(* effect, deqLog the requests DequeueRequest returned, in return order.   *)
(* The HttpRequestQueue with queueMutex runs the body of a call under the  *)
(* lock, in one step.  The HttpRequestQueue without a mutex lets calls     *)
(* overlap on the std::queue: a data race, whose outcomes are those of a   *)
(* call that reads the container's state and later writes the state it     *)
(* computed from what it read.                                             *)
(***************************************************************************)
Threads == {"t1", "t2"}

\* Mutant of DequeueRequest: front() without pop().
DequeueRequest_Peek(queue) ==
    IF queue = <<>> THEN [r |-> Null, queue |-> queue]
    ELSE [r |-> Head(queue), queue |-> queue]

\* HttpRequestQueue::DequeueRequest: the request returned (Null when the
\* queue is empty) and the queue after the call.
DequeueRequest(queue) ==
    IF queue = <<>> THEN [r |-> Null, queue |-> queue]
    ELSE [r |-> Head(queue), queue |-> Tail(queue)]

Idle == [op |-> "none", arg |-> Null, phase |-> "idle", local |-> <<>>, ret |-> Null]

\* The non-null requests passed to EnqueueRequest by calls in progress.
Pending == {t \in Threads : pc[t].op = "EnqueueRequest" /\ pc[t].phase # "idle"
                            /\ pc[t].arg # Null}

\* The request of the next EnqueueRequest call: each call passes a request
\* of its own.
NextRequest ==
    HttpRequest("GET", PathA, <<>>,
                <<"local_", Digit(Len(enqLog) + Cardinality(Pending) + 1)>>,
                LocalServer)

ThreadsInitWith(impl) ==
    /\ mode = "threads"
    /\ queueImpl = impl
    /\ pc = [t \in Threads |-> Idle]
    /\ requestQueue = <<>>
    /\ localQueue_ = <<>>
    /\ cloudQueue_ = <<>>
    /\ recvLog = <<>>
    /\ sentLog = <<>>
    /\ enqLog = <<>>
    /\ deqLog = <<>>
    /\ dispatched = NoDispatch
    /\ TrieIdle
    /\ TransportsIdle

\* A thread calls EnqueueRequest(request), EnqueueRequest(nullptr) or
\* DequeueRequest().
ThreadCalls ==
    /\ mode = "threads"
    /\ \E t \in Threads :
          /\ pc[t].phase = "idle"
          /\ \E call \in {[op |-> "EnqueueRequest", arg |-> NextRequest],
                          [op |-> "EnqueueRequest", arg |-> Null],
                          [op |-> "DequeueRequest", arg |-> Null]} :
                /\ (call.arg # Null) =>
                      Len(enqLog) + Cardinality(Pending) < MaxEnqueues
                /\ pc' = [pc EXCEPT ![t] =
                            [op |-> call.op, arg |-> call.arg, phase |-> "called",
                             local |-> <<>>, ret |-> Null]]
    /\ UNCHANGED <<trieVars, transports, requestQueue, localQueue_, cloudQueue_, queueImpl, recvLog,
                   sentLog, enqLog, deqLog, dispatched, mode>>

\* The body of a call of the HttpRequestQueue with queueMutex, from taking
\* the lock to the return.
LockedBody ==
    /\ mode = "threads"
    /\ queueImpl = "mutex"
    /\ \E t \in Threads :
          /\ pc[t].phase = "called"
          /\ IF pc[t].op = "EnqueueRequest"
             THEN /\ requestQueue' = EnqueueRequest(requestQueue, pc[t].arg)
                  /\ enqLog' = IF pc[t].arg = Null THEN enqLog
                               ELSE Append(enqLog, pc[t].arg)
                  /\ pc' = [pc EXCEPT ![t] = [@ EXCEPT !.phase = "idle"]]
                  /\ UNCHANGED deqLog
             ELSE LET d == DequeueRequest(requestQueue) IN
                  /\ requestQueue' = d.queue
                  /\ deqLog' = IF d.r = Null THEN deqLog ELSE Append(deqLog, d.r)
                  /\ pc' = [pc EXCEPT ![t] = [@ EXCEPT !.phase = "idle", !.ret = d.r]]
                  /\ UNCHANGED enqLog
    /\ UNCHANGED <<trieVars, transports, localQueue_, cloudQueue_, queueImpl, recvLog, sentLog,
                   dispatched, mode>>

\* HttpRequestQueue without a mutex: the call tests its argument or reads
\* the std::queue; EnqueueRequest(nullptr) and DequeueRequest on a queue
\* read as empty return here.
UnlockedRead ==
    /\ mode = "threads"
    /\ queueImpl = "unsynchronized"
    /\ \E t \in Threads :
          /\ pc[t].phase = "called"
          /\ pc' = [pc EXCEPT ![t] =
                IF pc[t].op = "EnqueueRequest" /\ pc[t].arg = Null
                THEN [@ EXCEPT !.phase = "idle"]
                ELSE IF pc[t].op = "DequeueRequest" /\ requestQueue = <<>>
                THEN [@ EXCEPT !.phase = "idle", !.ret = Null]
                ELSE [@ EXCEPT !.phase = "read", !.local = requestQueue]]
    /\ UNCHANGED <<trieVars, transports, requestQueue, localQueue_, cloudQueue_, queueImpl, recvLog,
                   sentLog, enqLog, deqLog, dispatched, mode>>

\* HttpRequestQueue without a mutex: push, or front and pop, write the
\* std::queue from what the call read.
UnlockedWrite ==
    /\ mode = "threads"
    /\ queueImpl = "unsynchronized"
    /\ \E t \in Threads :
          /\ pc[t].phase = "read"
          /\ IF pc[t].op = "EnqueueRequest"
             THEN /\ requestQueue' = Append(pc[t].local, pc[t].arg)
                  /\ enqLog' = Append(enqLog, pc[t].arg)
                  /\ pc' = [pc EXCEPT ![t] = [@ EXCEPT !.phase = "idle"]]
                  /\ UNCHANGED deqLog
             ELSE /\ requestQueue' = Tail(pc[t].local)
                  /\ deqLog' = Append(deqLog, Head(pc[t].local))
                  /\ pc' = [pc EXCEPT ![t] =
                              [@ EXCEPT !.phase = "idle", !.ret = Head(pc[t].local)]]
                  /\ UNCHANGED enqLog
    /\ UNCHANGED <<trieVars, transports, localQueue_, cloudQueue_, queueImpl, recvLog, sentLog,
                   dispatched, mode>>

MutexNext ==
    \/ ThreadCalls
    \/ LockedBody

UnlockedNext ==
    \/ ThreadCalls
    \/ UnlockedRead
    \/ UnlockedWrite

\* The HttpRequestQueue of HttpRequestQueue.h (queueMutex).
RequestQueueSpec == ThreadsInitWith("mutex") /\ [][MutexNext]_vars

\* The HttpRequestQueue without a mutex.
RequestQueueUnlockedSpec == ThreadsInitWith("unsynchronized") /\ [][UnlockedNext]_vars

\* C17: under any interleaving of the threads' calls, the requests
\* DequeueRequest has returned followed by the requests still queued are
\* the enqueued requests in the order their enqueues took effect: each is
\* returned once, in order, and none is lost; EnqueueRequest(nullptr)
\* changes nothing and DequeueRequest returns null only on an empty queue.
C17_RequestQueueFifo ==
    deqLog \o requestQueue = enqLog

\* The response of the EnqueueResponse call this step makes, if it makes one.
EnqueueStep == Len(enqLog') = Len(enqLog) + 1

\* C18: an EnqueueResponse call whose response is null, or has a source
\* that is neither LocalServer nor CloudServer, leaves both lanes as they
\* were (the call returns void and throws nothing).
C18_SilentDrop ==
    [][(EnqueueStep /\ (LastOf(enqLog') = Null
                        \/ LastOf(enqLog').source \notin Sources))
          => (localQueue_' = localQueue_ /\ cloudQueue_' = cloudQueue_)]_vars

\* The local lane holds a response; then a response of unknown source and a null
\* response were passed to EnqueueResponse.
C18_Witness_Dropped ==
    /\ mode = "queue"
    /\ Len(enqLog) = 3
    /\ enqLog[2] # Null /\ enqLog[2].source = UnknownSource
    /\ enqLog[3] = Null
    /\ localQueue_ = <<enqLog[1]>>
    /\ cloudQueue_ = <<>>

(***************************************************************************)
(* EndpointTrie called on its own: Insert of patterns, then Search of      *)
(* paths.                                                                  *)
(***************************************************************************)
MaxPatterns == 2

\* Patterns without variable segments, with and without a trailing slash.
LiteralPatterns ==
    {<<"/", "a">>, <<"/", "a", "/">>, <<"/", "a", "/", "b">>, <<"/">>}

\* Patterns with variable segments.
VariablePatterns ==
    {<<"/", "a", "/", "{", "x", "}">>,
     <<"/", "a", "/", "{", "x", "}", "/", "b">>,
     <<"/", "a", "/", "{", "y", "}">>,
     <<"/", "{", "y", "}", "/", "b">>,
     <<"/", "u", "/", "{", "a", "}", "/", "{", "b", "}", "/", "{", "x", "}">>}

TriePatterns == LiteralPatterns \cup VariablePatterns

\* Request paths with runs of '/' at the start, inside and at the end.
SlashRunPaths ==
    {<<"/", "a", "/", "/", "b">>, <<"/", "/", "a">>, <<"/", "a", "/", "/">>,
     <<"/", "/">>, <<"/", "a", "/", "/", "/", "z">>}

\* Request paths: the literal patterns themselves and paths whose segments
\* are values for the variables.
TriePaths ==
    LiteralPatterns \cup
    {<<"/", "a", "/", "z">>, <<"/", "a", "/", "z", "/">>,
     <<"/", "a", "/", "z", "/", "b">>, <<"/", "a", "/", "z", "/", "u">>,
     <<"/", "z", "/", "b">>, <<"/", "z">>,
     <<"/", "u", "/", "x", "/", "y", "/", "z">>,
     <<"/", "u", "/", "x", "/", "y">>}
    \cup SlashRunPaths

TrieInit ==
    /\ mode = "trie"
    /\ pc = "idle"
    /\ requestQueue = <<>>
    /\ localQueue_ = <<>>
    /\ cloudQueue_ = <<>>
    /\ queueImpl = "source"
    /\ recvLog = <<>>
    /\ sentLog = <<>>
    /\ enqLog = <<>>
    /\ deqLog = <<>>
    /\ dispatched = NoDispatch
    /\ TrieIdle
    /\ TransportsIdle

nonTrieVars == <<pc, requestQueue, localQueue_, cloudQueue_, queueImpl, recvLog,
                 sentLog, enqLog, deqLog, dispatched, transports, mode>>

\* EndpointTrie::Insert(pattern); the record of the last Search, made on
\* the trie as it was, is dropped.
CallInsert ==
    /\ mode = "trie"
    /\ Len(inserted) < MaxPatterns
    /\ \E pattern \in TriePatterns :
          /\ trie' = Insert(trie, pattern)
          /\ inserted' = Append(inserted, pattern)
    /\ searched' = NoSearch
    /\ UNCHANGED nonTrieVars

\* EndpointTrie::Search(path)
CallSearch ==
    /\ mode = "trie"
    /\ \E path \in TriePaths :
          searched' = [called |-> TRUE, path |-> path, result |-> Search(trie, path)]
    /\ UNCHANGED <<trie, inserted, nonTrieVars>>

TrieNext ==
    \/ CallInsert
    \/ CallSearch

TrieSpec == TrieInit /\ [][TrieNext]_vars

Inserted(pattern) == InSeq(pattern, inserted)

HasVariables(pattern) ==
    \E i \in 1..Len(SplitPath(pattern)) : IsVariableSegment(SplitPath(pattern)[i])

\* C19: a Search whose path is an inserted pattern without variable
\* segments returns found, that pattern and no variables, whatever else was
\* inserted.
C19_ExactMatch ==
    (searched.called /\ Inserted(searched.path) /\ ~HasVariables(searched.path))
        => searched.result = [found |-> TRUE, pattern |-> searched.path,
                              variables |-> EmptyMap]

Segments(path) == SplitPath(path)

\* The text between the braces of a variable segment.
NameIn(segment) == SubSeq(segment, 2, Len(segment) - 1)

VariablePositions(pattern) ==
    {i \in 1..Len(Segments(pattern)) : IsVariableSegment(Segments(pattern)[i])}

\* The path has as many segments as the pattern and the same text wherever
\* the pattern has a literal.
Conforms(path, pattern) ==
    /\ Len(Segments(path)) = Len(Segments(pattern))
    /\ \A i \in 1..Len(Segments(pattern)) :
          i \in VariablePositions(pattern) \/ Segments(pattern)[i] = Segments(path)[i]

\* Each variable name of the pattern bound to the path segment at its place.
Bindings(path, pattern) ==
    [name \in {NameIn(Segments(pattern)[i]) : i \in VariablePositions(pattern)} |->
        Segments(path)[CHOOSE i \in VariablePositions(pattern) :
                          NameIn(Segments(pattern)[i]) = name]]

EndsWithSlash(path) == Len(path) > 1 /\ path[Len(path)] = "/"

\* The Search was made on a trie holding one pattern, which has variables.
SearchedOnly(pattern) ==
    /\ searched.called
    /\ \A i \in 1..Len(inserted) : inserted[i] = pattern
    /\ inserted # <<>>
    /\ HasVariables(pattern)

\* C20 as stated: with one pattern with {var} segments inserted, Search of
\* a path is found iff the path has the pattern's number of segments and
\* its literals, and then returns the pattern and binds every variable to
\* the path segment at its position.
C20_VariableCapture_AsStated ==
    \A pattern \in VariablePatterns :
        SearchedOnly(pattern) =>
            /\ searched.result.found <=> Conforms(searched.path, pattern)
            /\ searched.result.found =>
                  /\ searched.result.pattern = pattern
                  /\ searched.result.variables = Bindings(searched.path, pattern)

\* C20: for a path that does not end in '/', Search is found iff some
\* inserted pattern has the path's number of segments and the path's text
\* at its literal positions; the pattern returned is such a pattern and the
\* variables returned bind each of its variable names to the path segment
\* at its position.  A path that ends in '/' is never matched to a pattern
\* with variables.
C20_VariableCapture ==
    searched.called =>
        IF EndsWithSlash(searched.path)
        THEN searched.result.found => ~HasVariables(searched.result.pattern)
        ELSE /\ searched.result.found <=>
                  \E i \in 1..Len(inserted) : Conforms(searched.path, inserted[i])
             /\ searched.result.found =>
                  /\ Inserted(searched.result.pattern)
                  /\ Conforms(searched.path, searched.result.pattern)
                  /\ searched.result.variables =
                        Bindings(searched.path, searched.result.pattern)

\* /u/x/y/z was searched with /u/{a}/{b}/{x} inserted and three variables
\* were bound.
C20_Witness_ThreeVariables ==
    /\ searched.called
    /\ searched.path = <<"/", "u", "/", "x", "/", "y", "/", "z">>
    /\ searched.result.found
    /\ Cardinality(DOMAIN searched.result.variables) = 3
    /\ searched.result.variables[<<"a">>] = <<"x">>
    /\ searched.result.variables[<<"x">>] = <<"z">>

\* Patterns p and q have the same segments before position i, where p has
\* a variable segment and q a literal one.
LiteralBranchesOff(p, q, i) ==
    /\ i <= Len(Segments(p)) /\ i <= Len(Segments(q))
    /\ \A j \in 1..(i - 1) : Segments(p)[j] = Segments(q)[j]
    /\ IsVariableSegment(Segments(p)[i])
    /\ ~IsVariableSegment(Segments(q)[i])

\* C21: the pattern Search returns never goes through a variable child at
\* a node where an inserted pattern that fits the path goes through a
\* literal child: whenever the path can be matched through the literal
\* child, that match is the one returned.
C21_LiteralDominatesVariable ==
    (searched.called /\ searched.result.found) =>
        \A k \in 1..Len(inserted) :
            Conforms(searched.path, inserted[k]) =>
                \A i \in 1..Len(Segments(inserted[k])) :
                    ~LiteralBranchesOff(searched.result.pattern, inserted[k], i)

\* /a/{x} and /a/b are inserted and Search(/a/b) returned /a/b.
C21_Witness_BothFit ==
    /\ searched.called
    /\ Inserted(<<"/", "a", "/", "{", "x", "}">>)
    /\ Inserted(<<"/", "a", "/", "b">>)
    /\ searched.path = <<"/", "a", "/", "b">>
    /\ searched.result.found
    /\ searched.result.pattern = <<"/", "a", "/", "b">>
    /\ searched.result.variables = EmptyMap

\* The path without the empty segment its trailing slash stands for.
WithoutSentinel(path) == SubSeq(Segments(path), 1, Len(Segments(path)) - 1)

\* Inserted patterns made of literal segments only, equal to the segments
\* of the path before its trailing slash.
LiteralTwins(path) ==
    {k \in 1..Len(inserted) :
        /\ \A i \in 1..Len(Segments(inserted[k])) :
               ~IsVariableSegment(Segments(inserted[k])[i])
        /\ Segments(inserted[k]) = WithoutSentinel(path)}

\* C22: a path ending in '/' (other than "/") is matched iff the node its
\* segments lead to through literal children only is an endpoint, that is
\* iff a pattern without variables and without the trailing slash is
\* inserted; the result is that pattern, with no variables. A pattern with
\* {var} segments is never returned for such a path.
C22_TrailingSlashRule ==
    (searched.called /\ EndsWithSlash(searched.path) /\ Len(searched.path) > 1) =>
        /\ searched.result.found <=> LiteralTwins(searched.path) # {}
        /\ searched.result.found =>
               /\ \E k \in LiteralTwins(searched.path) :
                      searched.result.pattern = inserted[k]
               /\ searched.result.variables = EmptyMap

\* /a/{x} and /a are inserted: Search(/a/) returned /a.
C22_Witness_MatchesLiteral ==
    /\ searched.called
    /\ Inserted(<<"/", "a", "/", "{", "x", "}">>)
    /\ Inserted(<<"/", "a">>)
    /\ searched.path = <<"/", "a", "/">>
    /\ searched.result.found
    /\ searched.result.pattern = <<"/", "a">>

\* The path without its last character.
Front(path) == SubSeq(path, 1, Len(path) - 1)

\* C23: a pattern inserted with a trailing slash is a pattern of its own:
\* Search of a path ending in '/' that is itself an inserted pattern
\* returns that pattern (Insert(/a/) then Search(/a/) returns /a/); when
\* the pattern without the slash is inserted too, Search of the path
\* without the slash returns the pattern without the slash.
C23_TrailingSlashVariantsDistinct ==
    (searched.called /\ EndsWithSlash(searched.path) /\ Inserted(searched.path)
        /\ ~HasVariables(searched.path)) =>
        /\ searched.result.found
        /\ searched.result.pattern = searched.path
        /\ Inserted(Front(searched.path)) =>
               Search(trie, Front(searched.path)).pattern = Front(searched.path)

\* Patterns p and q have the same segments before position i and different
\* variable segments at position i: their nodes at i are sibling variable
\* children.
VariableSiblings(p, q, i) ==
    /\ i <= Len(Segments(p)) /\ i <= Len(Segments(q))
    /\ \A j \in 1..(i - 1) : Segments(p)[j] = Segments(q)[j]
    /\ IsVariableSegment(Segments(p)[i])
    /\ IsVariableSegment(Segments(q)[i])
    /\ Segments(p)[i] # Segments(q)[i]

\* The position in the insertion order of the Insert that created the
\* node of pattern p at position i.
ChildCreated(p, i) ==
    LET through == {k \in 1..Len(inserted) :
                       /\ i <= Len(Segments(inserted[k]))
                       /\ \A j \in 1..i : Segments(inserted[k])[j] = Segments(p)[j]}
    IN CHOOSE k \in through : \A other \in through : k <= other

\* C24: when patterns that fit the path go through different variable
\* children of one node, Search returns a pattern through the child that
\* was inserted first (/a/{y} then /a/{x} inserted: Search(/a/z) returns
\* /a/{y}).
C24_SiblingsByInsertionOrder ==
    (searched.called /\ searched.result.found) =>
        \A k \in 1..Len(inserted) :
            Conforms(searched.path, inserted[k]) =>
                \A i \in 1..Len(Segments(inserted[k])) :
                    VariableSiblings(searched.result.pattern, inserted[k], i) =>
                        ChildCreated(searched.result.pattern, i)
                            < ChildCreated(inserted[k], i)

\* The step is an Insert of a pattern that was inserted before.
InsertsAgain ==
    /\ Len(inserted') = Len(inserted) + 1
    /\ Inserted(LastOf(inserted'))

\* The nodes of the dispatcher's trie that are the endpoint of the pattern.
EndpointsOf(nodes, pattern) ==
    {n \in 1..Len(nodes) :
        nodes[n].isEndpoint /\ nodes[n].endpointPattern = pattern}

\* C25: an Insert of a pattern that is already inserted leaves the trie as
\* it was, and with it the result of every Search; the dispatcher's trie,
\* built by inserting each method's patterns in turn, holds the pattern
\* registered under GET and under POST at one node.
C25_InsertIdempotent ==
    [][/\ InsertsAgain =>
            /\ trie' = trie
            /\ \A path \in TriePaths : Search(trie', path) = Search(trie, path)
       /\ (PathA \in DOMAIN getMappings /\ PathA \in DOMAIN postMappings) =>
              Cardinality(EndpointsOf(endpointTrie, PathA)) = 1]_vars

\* A pattern was inserted twice and a Search then returned it.
C25_Witness_InsertedTwice ==
    /\ Len(inserted) >= 2
    /\ inserted[1] = inserted[2]
    /\ searched.called
    /\ searched.result.found
    /\ searched.result.pattern = inserted[1]

(***************************************************************************)
(* EndpointTrie called with any text as pattern, and cleared.              *)
(***************************************************************************)
\* Texts with unbalanced braces or a variable name used twice.
MalformedPatterns ==
    {<<"/", "a", "/", "{", "x">>,
     <<"/", "a", "/", "x", "}">>,
     <<"/", "{", "x", "}", "/", "{", "x", "}">>}

\* The empty text.
EmptyPattern == <<>>

AnyPatterns ==
    {<<"/", "a">>, <<"/">>, <<"/", "a", "/", "{", "x", "}">>}
        \cup MalformedPatterns \cup {EmptyPattern}

\* EndpointTrie::Clear(): the root is deleted and replaced by a new node.
Clear == NewTrie

trieCallVars == <<requestQueue, localQueue_, cloudQueue_, queueImpl, recvLog,
                  sentLog, enqLog, deqLog, dispatched, transports, mode>>

\* EndpointTrie::Insert(pattern) with any text; Insert is Void and has no
\* throw statement: the call returns.
CallInsertAny ==
    /\ mode = "trie"
    /\ Len(inserted) < MaxPatterns
    /\ \E pattern \in AnyPatterns :
          /\ trie' = Insert(trie, pattern)
          /\ inserted' = Append(inserted, pattern)
          /\ pc' = [op |-> "Insert", pattern |-> pattern, outcome |-> "returned"]
    /\ searched' = NoSearch
    /\ UNCHANGED trieCallVars

\* EndpointTrie::Clear()
CallClear ==
    /\ mode = "trie"
    /\ trie' = Clear
    /\ inserted' = <<>>
    /\ searched' = NoSearch
    /\ pc' = [op |-> "Clear", pattern |-> <<>>, outcome |-> "returned"]
    /\ UNCHANGED trieCallVars

TrieCallsNext ==
    \/ CallInsertAny
    \/ CallClear
    \/ CallSearch

TrieCallsSpec == TrieInit /\ [][TrieCallsNext]_vars

\* Number of positions of the text that hold the character.
RECURSIVE CountChar(_, _)
CountChar(text, c) ==
    IF text = <<>> THEN 0
    ELSE (IF Head(text) = c THEN 1 ELSE 0) + CountChar(Tail(text), c)

\* A segment with a brace that is not a variable segment {name} with a
\* name free of braces.
UnbalancedSegment(segment) ==
    /\ CountChar(segment, "{") + CountChar(segment, "}") > 0
    /\ ~(/\ IsVariableSegment(segment)
         /\ CountChar(segment, "{") = 1
         /\ CountChar(segment, "}") = 1)

\* Unbalanced braces in a segment, or one variable name at two positions.
Malformed(pattern) ==
    \/ \E i \in 1..Len(Segments(pattern)) : UnbalancedSegment(Segments(pattern)[i])
    \/ \E i, j \in 1..Len(Segments(pattern)) :
          /\ i < j
          /\ IsVariableSegment(Segments(pattern)[i])
          /\ Segments(pattern)[i] = Segments(pattern)[j]

\* The step is an Insert call.
IsInsertStep == Len(inserted') = Len(inserted) + 1

\* C26: an Insert of a pattern with unbalanced braces or with a variable
\* name used twice ends with InvalidPattern and leaves the trie as it was.
C26_MalformedRejected ==
    [][(IsInsertStep /\ Malformed(LastOf(inserted'))) =>
           /\ pc'.outcome = "InvalidPattern"
           /\ trie' = trie]_vars

\* C27: after any sequence of Insert and Clear calls every node of the
\* trie has a non-empty stored pattern iff it is marked as endpoint.
C27_PatternIffEndpoint ==
    mode = "trie" =>
        \A n \in 1..Len(trie) : (trie[n].endpointPattern # <<>>) <=> trie[n].isEndpoint

\* Positions of the '/' characters of the text, with the positions just
\* before its first and just after its last character.
Cuts(text) == {i \in 1..Len(text) : text[i] = "/"} \cup {0, Len(text) + 1}

\* The non-empty pieces of the text between two neighbouring cuts at or
\* after the cut `from`, in the order of the text.
RECURSIVE PiecesFrom(_, _)
PiecesFrom(text, from) ==
    IF from > Len(text) THEN <<>>
    ELSE LET next == CHOOSE c \in Cuts(text) :
                        c > from /\ \A d \in Cuts(text) : d > from => c <= d
         IN (IF next > from + 1 THEN <<SubSeq(text, from + 1, next - 1)>> ELSE <<>>)
            \o PiecesFrom(text, next)

\* The tokens of a path as stated: the non-empty pieces between slashes,
\* followed by one empty piece iff the path ends with '/' and is not "/".
Tokens(path) ==
    PiecesFrom(path, 0)
        \o (IF path # <<>> /\ path # <<"/">> /\ path[Len(path)] = "/"
            THEN << <<>> >> ELSE <<>>)

\* The path with every run of '/' replaced by one '/'.
RECURSIVE Collapse(_)
Collapse(path) ==
    IF Len(path) < 2 THEN path
    ELSE IF path[1] = "/" /\ path[2] = "/" THEN Collapse(Tail(path))
    ELSE <<Head(path)>> \o Collapse(Tail(path))

\* C28: SplitPath gives the non-empty pieces of the path between slashes,
\* followed by exactly one empty segment iff the path ends with '/' and is
\* not "/"; "/" gives no segment; and Search returns for a path what it
\* returns for the path with its runs of '/' collapsed.
C28_PathTokenization ==
    /\ SplitPath(<<"/">>) = <<>>
    /\ searched.called =>
           /\ SplitPath(searched.path) = Tokens(searched.path)
           /\ searched.result = Search(trie, Collapse(searched.path))

\* /a//b was searched with /a/b inserted, and /a/b was returned.
C28_Witness_RunCollapsed ==
    /\ searched.called
    /\ searched.path = <<"/", "a", "/", "/", "b">>
    /\ Collapse(searched.path) = <<"/", "a", "/", "b">>
    /\ Inserted(<<"/", "a", "/", "b">>)
    /\ searched.result.found
    /\ searched.result.pattern = <<"/", "a", "/", "b">>

\* C29: no DispatchRequest call changes the dispatcher's method maps or
\* its trie: both are after the call what they were before it.
C29_DispatcherReadOnly ==
    [][/\ dispatched'.mappings = dispatched.mappings
       /\ dispatched'.endpointTrie = dispatched.endpointTrie]_vars

\* DispatchRequest found a pattern, looked up its adapter in the map of
\* the request's method with mappings[patternUrl] and called it; maps and
\* trie are as InitializeMappings and InsertMappingsToTrie left them.
C29_Witness_AdapterLookedUp ==
    /\ mode = "dispatcher"
    /\ dispatched.result # Null
    /\ dispatched.result.invoked # <<>>
    /\ dispatched.mappings = InitializeMappings
    /\ dispatched.endpointTrie = InsertMappingsToTrie

(***************************************************************************)
(* HttpRequestManager::StartServer and ::StopServer.                       *)
(***************************************************************************)
MaxServerCalls == 3

\* Port numbers passed to StartServer.
Ports == {80, 8080}

\* StartServer(port): the transports after the call and the value
\* returned; primaryOk and secondOk are what Start(port) returns on the
\* primary and on the second transport.
StartServer(st, port, primaryOk, secondOk) ==
    IF ~st.present[server]
    THEN [transports |-> st, returned |-> FALSE]
    ELSE LET result == primaryOk
             afterPrimary ==
                 [st EXCEPT !.calls[server] =
                     Append(@, [op |-> "Start", port |-> port, ok |-> result])]
         IN [transports |->
                IF result /\ st.present[secondServer]
                THEN [afterPrimary EXCEPT !.calls[secondServer] =
                         Append(@, [op |-> "Start", port |-> port, ok |-> secondOk])]
                ELSE afterPrimary,
             returned |-> result]

\* StopServer(): Stop() on each transport that exists.
StopServer(st) ==
    LET stop(s, t) ==
            IF s.present[t]
            THEN [s EXCEPT !.calls[t] = Append(@, [op |-> "Stop", port |-> 0, ok |-> TRUE])]
            ELSE s
    IN stop(stop(st, server), secondServer)

\* The manager after its constructor: ServerProvider gives each transport
\* or a null pointer.
ServerInit ==
    /\ mode = "server"
    /\ pc = [op |-> "none", port |-> 0, returned |-> FALSE, n |-> 0]
    /\ requestQueue = <<>>
    /\ localQueue_ = <<>>
    /\ cloudQueue_ = <<>>
    /\ queueImpl = "source"
    /\ recvLog = <<>>
    /\ sentLog = <<>>
    /\ enqLog = <<>>
    /\ deqLog = <<>>
    /\ dispatched = NoDispatch
    /\ TrieIdle
    /\ \E present \in [Transports -> BOOLEAN] :
          transports = [present |-> present, calls |-> [t \in Transports |-> <<>>]]

serverFrame == <<trieVars, requestQueue, localQueue_, cloudQueue_, queueImpl,
                 recvLog, sentLog, enqLog, deqLog, dispatched, mode>>

CallStartServer ==
    /\ mode = "server"
    /\ pc.n < MaxServerCalls
    /\ \E port \in Ports, primaryOk \in BOOLEAN, secondOk \in BOOLEAN :
          \E out \in {StartServer(transports, port, primaryOk, secondOk)} :
              /\ transports' = out.transports
              /\ pc' = [op |-> "StartServer", port |-> port,
                        returned |-> out.returned, n |-> pc.n + 1]
    /\ UNCHANGED serverFrame

CallStopServer ==
    /\ mode = "server"
    /\ pc.n < MaxServerCalls
    /\ transports' = StopServer(transports)
    /\ pc' = [op |-> "StopServer", port |-> 0, returned |-> FALSE, n |-> pc.n + 1]
    /\ UNCHANGED serverFrame

ServerNext ==
    \/ CallStartServer
    \/ CallStopServer

ServerSpec == ServerInit /\ [][ServerNext]_vars

\* The step is a StartServer call.
IsStartServerStep == pc'.op = "StartServer" /\ pc'.n = pc.n + 1

\* Start(port) was called on the transport in the step.
StartedInStep(t) ==
    /\ Len(transports'.calls[t]) = Len(transports.calls[t]) + 1
    /\ LastOf(transports'.calls[t]).op = "Start"
    /\ LastOf(transports'.calls[t]).port = pc'.port

\* C30: a StartServer call calls Start on the primary transport and, when
\* a second transport exists, on the second transport too; it returns true
\* iff the primary transport exists and its Start succeeded.
C30_StartServer ==
    [][IsStartServerStep =>
           /\ transports.present[server] => StartedInStep(server)
           /\ transports.present[secondServer] => StartedInStep(secondServer)
           /\ pc'.returned <=>
                  (/\ transports.present[server]
                   /\ LastOf(transports'.calls[server]).ok)]_vars

\* C31: when manager ProcessResponse has returned, it returned true iff at
\* least one response was taken from the queue and handled during the
\* call, and it returned false only if the response queue was empty when
\* the call began.
C31_ProcessResponseResult ==
    Returned("ProcessResponse") =>
        /\ pc.returns <=> (pc.info >= 1)
        /\ ~pc.returns => (pc.before.local = 0 /\ pc.before.cloud = 0)

\* C32: when RetrieveRequest has returned, it returned true iff
\* ReceiveMessage gave it a request during the call and that request was
\* put on the request queue (where it is the newest request, unless the
\* request processor has already taken and dispatched it).
C32_RetrieveRequestResult ==
    Returned("RetrieveRequest") =>
        (pc.returns <=>
            /\ pc.info = 1
            /\ \/ requestQueue # <<>> /\ LastOf(requestQueue) = LastOf(recvLog[server])
               \/ dispatched.request = LastOf(recvLog[server]))

(***************************************************************************)
(* HttpRequestDispatcher::UrlDecode and ::ConvertToType.                   *)
(***************************************************************************)
MaxBytes == 3

HexDigits ==
    <<"0", "1", "2", "3", "4", "5", "6", "7", "8", "9", "A", "B", "C", "D", "E", "F">>

LowerHexDigits == <<"a", "b", "c", "d", "e", "f">>

\* std::isxdigit
IsXDigit(c) ==
    \/ \E i \in 1..Len(HexDigits) : HexDigits[i] = c
    \/ \E i \in 1..Len(LowerHexDigits) : LowerHexDigits[i] = c

\* The value of one hexadecimal digit, as `hexStream >> std::hex` reads it.
HexValue(c) ==
    IF \E i \in 1..Len(HexDigits) : HexDigits[i] = c
    THEN (CHOOSE i \in 1..Len(HexDigits) : HexDigits[i] = c) - 1
    ELSE (CHOOSE i \in 1..Len(LowerHexDigits) : LowerHexDigits[i] = c) + 9

\* The bytes of the model's alphabet and their codes.
ByteCodes == [c \in {"a", " ", "%", "+"} |->
                 CASE c = "a" -> 97 [] c = " " -> 32 [] c = "%" -> 37 [] OTHER -> 43]

\* static_cast<char>(value): the byte with that code.
CharOf(value) ==
    IF \E c \in DOMAIN ByteCodes : ByteCodes[c] = value
    THEN CHOOSE c \in DOMAIN ByteCodes : ByteCodes[c] = value
    ELSE "?"

\* Mutant of UrlDecodeFrom: a '%' needs three characters after it.
RECURSIVE UrlDecodeFrom_ShortBound(_, _, _)
UrlDecodeFrom_ShortBound(str, i, result) ==
    IF ~(i <= Len(str)) THEN result
    ELSE IF str[i] = "%" /\ i + 2 < Len(str)
    THEN LET c1 == str[i + 1]
             c2 == str[i + 2]
         IN IF IsXDigit(c1) /\ IsXDigit(c2)
            THEN UrlDecodeFrom_ShortBound(str, i + 3,
                     Append(result, CharOf(16 * HexValue(c1) + HexValue(c2))))
            ELSE UrlDecodeFrom_ShortBound(str, i + 1, Append(result, str[i]))
    ELSE IF str[i] = "+"
    THEN UrlDecodeFrom_ShortBound(str, i + 1, Append(result, " "))
    ELSE UrlDecodeFrom_ShortBound(str, i + 1, Append(result, str[i]))

\* The loop of UrlDecode from index i (counted from 1) on.
RECURSIVE UrlDecodeFrom(_, _, _)
UrlDecodeFrom(str, i, result) ==
    IF ~(i <= Len(str)) THEN result
    ELSE IF str[i] = "%" /\ i + 1 < Len(str)
    THEN LET c1 == str[i + 1]
             c2 == str[i + 2]
         IN IF IsXDigit(c1) /\ IsXDigit(c2)
            THEN UrlDecodeFrom(str, i + 3,
                               Append(result, CharOf(16 * HexValue(c1) + HexValue(c2))))
            ELSE UrlDecodeFrom(str, i + 1, Append(result, str[i]))
    ELSE IF str[i] = "+"
    THEN UrlDecodeFrom(str, i + 1, Append(result, " "))
    ELSE UrlDecodeFrom(str, i + 1, Append(result, str[i]))

UrlDecode(str) == UrlDecodeFrom(str, 1, <<>>)

\* ConvertToType<StdString>(str)
ConvertToString(str) == UrlDecode(str)

\* Percent-encoding of a byte sequence: an unreserved byte stands for
\* itself, any other byte is written as '%' and two hexadecimal digits.
Unreserved == {"a"}

RECURSIVE PercentEncode(_)
PercentEncode(bytes) ==
    IF bytes = <<>> THEN <<>>
    ELSE (IF Head(bytes) \in Unreserved THEN <<Head(bytes)>>
          ELSE <<"%", HexDigits[(ByteCodes[Head(bytes)] \div 16) + 1],
                 HexDigits[(ByteCodes[Head(bytes)] % 16) + 1]>>)
         \o PercentEncode(Tail(bytes))

\* The byte sequences of at most MaxBytes bytes.
ByteSequences ==
    UNION {[1..n -> DOMAIN ByteCodes] : n \in 0..MaxBytes}

\* The conversions of a path-variable text to a string the harness makes:
\* the text is the percent-encoding of a byte sequence.
StringCalls ==
    {[type |-> "StdString", bytes |-> s, str |-> PercentEncode(s),
      called |-> FALSE, outcome |-> "none", value |-> <<>>, number |-> 0] :
        s \in ByteSequences}

\* INT_MAX and INT_MIN of the 32-bit int that std::stoi returns.
IntMax == 2147483647
IntMin == -IntMax - 1

IsDigit(c) == \E i \in 1..10 : HexDigits[i] = c

DigitValue(c) == (CHOOSE i \in 1..10 : HexDigits[i] = c) - 1

\* The index of the first character from i on that is not white space.
RECURSIVE SkipSpace(_, _)
SkipSpace(str, i) ==
    IF i <= Len(str) /\ str[i] = " " THEN SkipSpace(str, i + 1) ELSE i

\* strtol / strtoul reading digits from index i on: the digits are read
\* up to the first character that is not a digit.  acc is the magnitude
\* read so far, kept while it is at most IntMax; over is set when the
\* magnitude exceeds IntMax and edge when it is exactly IntMax + 1; low is
\* the magnitude modulo 65536; digits counts the digits read.
RECURSIVE ReadDigits(_, _, _)
ReadDigits(str, i, st) ==
    IF ~(i <= Len(str) /\ IsDigit(str[i])) THEN st
    ELSE LET d == DigitValue(str[i])
             fits == /\ ~st.over
                     /\ \/ st.acc < IntMax \div 10
                        \/ (st.acc = IntMax \div 10 /\ d <= IntMax % 10)
         IN ReadDigits(str, i + 1,
                       [acc |-> IF fits THEN st.acc * 10 + d ELSE st.acc,
                        over |-> ~fits,
                        edge |-> /\ ~st.over
                                 /\ st.acc = IntMax \div 10
                                 /\ d = (IntMax % 10) + 1,
                        low |-> (st.low * 10 + d) % 65536,
                        digits |-> st.digits + 1])

\* The common part of std::stoi and std::stoul: white space, an optional
\* sign, then digits; what follows the digits is not looked at.
ReadInteger(str) ==
    LET start == SkipSpace(str, 1)
        signed == start <= Len(str) /\ str[start] \in {"-", "+"}
        negative == signed /\ str[start] = "-"
    IN [negative |-> negative] @@
       ReadDigits(str, IF signed THEN start + 1 ELSE start,
                  [acc |-> 0, over |-> FALSE, edge |-> FALSE, low |-> 0, digits |-> 0])

\* std::stoi(str): invalid_argument when no digit is read, out_of_range
\* when the value is not an int, else the value.
Stoi(str) ==
    LET r == ReadInteger(str)
    IN IF r.digits = 0 THEN [kind |-> "invalid_argument", value |-> 0]
       ELSE IF r.over /\ ~(r.negative /\ r.edge)
       THEN [kind |-> "out_of_range", value |-> 0]
       ELSE [kind |-> "value",
             value |-> IF r.over THEN IntMin
                       ELSE IF r.negative THEN 0 - r.acc ELSE r.acc]

\* The widths in bits of the integer types converted to.
SignedTypes == [int |-> 32, short |-> 16, int8_t |-> 8]
UnsignedTypes == [uint16_t |-> 16, uint8_t |-> 8]

\* 2 to the power of bits, for bits up to 16.
RECURSIVE Pow2(_)
Pow2(bits) == IF bits = 0 THEN 1 ELSE 2 * Pow2(bits - 1)

\* static_cast<Type>(value) of an int to a signed type of that width:
\* the value modulo 2^bits in the range of the type.
CastSigned(value, bits) ==
    IF bits = 32 THEN value
    ELSE ((value + Pow2(bits - 1)) % Pow2(bits)) - Pow2(bits - 1)

\* ConvertToType<Type>(str) for a signed integer type no wider than int:
\* static_cast<Type>(std::stoi(str)), any exception of stoi rethrown as
\* std::invalid_argument.
ConvertToSigned(type, str) ==
    LET r == Stoi(str)
    IN IF r.kind # "value" THEN [outcome |-> "invalid_argument", value |-> 0]
       ELSE [outcome |-> "value", value |-> CastSigned(r.value, SignedTypes[type])]

\* ConvertToType<Type>(str) for an unsigned integer type of at most 16
\* bits: static_cast<Type>(std::stoul(str)).  stoul negates the magnitude
\* of a text with a minus sign in unsigned long; it throws out_of_range
\* only above ULONG_MAX.  The one text of the harness with a magnitude
\* above IntMax has eleven digits: above ULONG_MAX where unsigned long has
\* 32 bits and below it where it has 64, so both outcomes are given.
ConvertToUnsigned(type, str) ==
    LET r == ReadInteger(str)
        modulus == Pow2(UnsignedTypes[type])
        cast == IF r.negative THEN (modulus - (r.low % modulus)) % modulus
                ELSE r.low % modulus
    IN IF r.digits = 0 THEN {[outcome |-> "invalid_argument", value |-> 0]}
       ELSE IF r.over
       THEN {[outcome |-> "invalid_argument", value |-> 0],
             [outcome |-> "value", value |-> cast]}
       ELSE {[outcome |-> "value", value |-> cast]}

IntegerTypes == DOMAIN SignedTypes \cup DOMAIN UnsignedTypes

\* Path-variable texts converted to integers.
IntegerTexts ==
    {<<"7">>, <<"1", "2">>, <<"1", "2", "a">>, <<"-", "1">>, <<"3", "0", "0">>,
     <<"7", "0", "0", "0", "0">>, <<"1", "2", "7">>, <<"-", "1", "2", "9">>,
     <<"4", "0", "0", "0", "0">>, <<"a">>, <<>>, <<" ", "7">>, <<"+", "5">>,
     <<"9", "9", "9", "9", "9", "9", "9", "9", "9", "9", "9">>}

IntegerCalls ==
    {[type |-> t, bytes |-> <<>>, str |-> s, called |-> FALSE,
      outcome |-> "none", value |-> <<>>, number |-> 0] :
        t \in IntegerTypes, s \in IntegerTexts}

\* ConvertToType<Type>(str) for the integer types.
ConvertToInteger(type, str) ==
    IF type \in DOMAIN SignedTypes THEN {ConvertToSigned(type, str)}
    ELSE ConvertToUnsigned(type, str)

\* The call to make is drawn here; the actions make it.
ConvertInit ==
    /\ mode = "convert"
    /\ pc \in StringCalls \cup IntegerCalls
    /\ requestQueue = <<>>
    /\ localQueue_ = <<>>
    /\ cloudQueue_ = <<>>
    /\ queueImpl = "source"
    /\ recvLog = <<>>
    /\ sentLog = <<>>
    /\ enqLog = <<>>
    /\ deqLog = <<>>
    /\ dispatched = NoDispatch
    /\ TrieIdle
    /\ TransportsIdle

convertFrame == <<trieVars, transports, requestQueue, localQueue_, cloudQueue_,
                  queueImpl, recvLog, sentLog, enqLog, deqLog, dispatched, mode>>

CallConvertToString ==
    /\ mode = "convert"
    /\ pc.type = "StdString"
    /\ ~pc.called
    /\ pc' = [pc EXCEPT !.called = TRUE, !.outcome = "value",
                        !.value = ConvertToString(pc.str)]
    /\ UNCHANGED convertFrame

CallConvertToInteger ==
    /\ mode = "convert"
    /\ pc.type \in IntegerTypes
    /\ ~pc.called
    /\ \E out \in ConvertToInteger(pc.type, pc.str) :
          pc' = [pc EXCEPT !.called = TRUE, !.outcome = out.outcome,
                           !.number = out.value]
    /\ UNCHANGED convertFrame

ConvertNext ==
    \/ CallConvertToString
    \/ CallConvertToInteger

ConvertSpec == ConvertInit /\ [][ConvertNext]_vars

\* C33: converting the percent-encoding of a byte sequence to a string
\* gives the byte sequence back; a '%' that is not followed by two
\* hexadecimal digits stays as it is, and a '+' becomes a space.
C33_UrlDecodeRoundTrip ==
    /\ (mode = "convert" /\ pc.type = "StdString" /\ pc.called) =>
           pc.value = pc.bytes
    /\ ConvertToString(<<"%">>) = <<"%">>
    /\ ConvertToString(<<"%", "2">>) = <<"%", "2">>
    /\ ConvertToString(<<"%", "2", "z", "a">>) = <<"%", "2", "z", "a">>
    /\ ConvertToString(<<"a", "+", "a">>) = <<"a", " ", "a">>

\* The bytes a, % and + were encoded as a%25%2B and converted back.
C33_Witness_Encoded ==
    /\ mode = "convert"
    /\ pc.type = "StdString"
    /\ pc.called
    /\ pc.bytes = <<"a", "%", "+">>
    /\ pc.str = <<"a", "%", "2", "5", "%", "2", "B">>
    /\ pc.value = pc.bytes

\* The text has a character that is not a digit after one of its digits.
TrailingGarbage(str) ==
    \E i, j \in 1..Len(str) : i < j /\ IsDigit(str[i]) /\ ~IsDigit(str[j])

\* The text is an optional minus sign followed by digits only.
IsDecimal(str) ==
    LET digits == IF str # <<>> /\ str[1] = "-" THEN Tail(str) ELSE str
    IN digits # <<>> /\ \A i \in 1..Len(digits) : IsDigit(digits[i])

\* The number a decimal text of up to nine digits denotes.
RECURSIVE NumberOf(_, _)
NumberOf(digits, sofar) ==
    IF digits = <<>> THEN sofar
    ELSE NumberOf(Tail(digits), 10 * sofar + DigitValue(Head(digits)))

Denoted(str) ==
    IF str[1] = "-" THEN 0 - NumberOf(Tail(str), 0) ELSE NumberOf(str, 0)

\* The least and the greatest value of the type.
TypeMin(type) ==
    IF type \in DOMAIN UnsignedTypes THEN 0
    ELSE IF type = "int" THEN IntMin
    ELSE 0 - Pow2(SignedTypes[type] - 1)

TypeMax(type) ==
    IF type \in DOMAIN UnsignedTypes THEN Pow2(UnsignedTypes[type]) - 1
    ELSE IF type = "int" THEN IntMax
    ELSE Pow2(SignedTypes[type] - 1) - 1

\* The decimal text denotes a value outside the range of the type.
OutsideRange(type, str) ==
    /\ IsDecimal(str)
    /\ \/ Len(str) > 9
       \/ Denoted(str) < TypeMin(type)
       \/ Denoted(str) > TypeMax(type)

\* C34: the conversion of a text with characters after its digits, or of
\* a decimal text denoting a value outside the range of the type, fails
\* with an invalid-value error; a conversion of a decimal text that gives
\* a value gives the value the text denotes.
C34_IntegerValidated ==
    (mode = "convert" /\ pc.type \in IntegerTypes /\ pc.called) =>
        /\ (TrailingGarbage(pc.str) \/ OutsideRange(pc.type, pc.str)) =>
               pc.outcome = "invalid_argument"
        /\ (pc.outcome = "value" /\ IsDecimal(pc.str) /\ Len(pc.str) <= 9) =>
               pc.number = Denoted(pc.str)

(***************************************************************************)
(* HttpStatus: the registry of codes and the class predicates.             *)
(***************************************************************************)
\* The values of the enumerators of HttpStatus.
HttpStatusCodes ==
    {100, 101, 102, 103,
     200, 201, 202, 203, 204, 205, 206, 207, 208, 226,
     300, 301, 302, 303, 304, 305, 307, 308,
     400, 401, 402, 403, 404, 405, 406, 407, 408, 409, 410, 411, 412, 413,
     414, 415, 416, 417, 418, 421, 422, 423, 424, 425, 426, 428, 429, 431, 451,
     500, 501, 502, 503, 504, 505, 506, 507, 508, 510, 511}

IsSuccess(code) == LET value == StatusToInt(code) IN value >= 200 /\ value < 300

\* Mutant of IsRedirect: 400 is taken in.
IsRedirect_Through400(code) ==
    LET value == StatusToInt(code) IN value >= 300 /\ value <= 400

IsRedirect(code) == LET value == StatusToInt(code) IN value >= 300 /\ value < 400

IsClientError(code) == LET value == StatusToInt(code) IN value >= 400 /\ value < 500

IsServerError(code) == LET value == StatusToInt(code) IN value >= 500 /\ value < 600

IsInformational(code) == LET value == StatusToInt(code) IN value >= 100 /\ value < 200

\* static_cast<HttpStatus>(code): the status with that number.
IntToStatus(code) == code

\* The names of the class predicates that are true of the status.
ClassesOf(status) ==
    {name \in {"IsInformational", "IsSuccess", "IsRedirect", "IsClientError",
               "IsServerError"} :
        CASE name = "IsInformational" -> IsInformational(status)
          [] name = "IsSuccess" -> IsSuccess(status)
          [] name = "IsRedirect" -> IsRedirect(status)
          [] name = "IsClientError" -> IsClientError(status)
          [] OTHER -> IsServerError(status)}

\* The code to classify is drawn here.
StatusInit ==
    /\ mode = "status"
    /\ \E code \in HttpStatusCodes :
          pc = [code |-> code, called |-> FALSE, classes |-> {}, back |-> 0]
    /\ requestQueue = <<>>
    /\ localQueue_ = <<>>
    /\ cloudQueue_ = <<>>
    /\ queueImpl = "source"
    /\ recvLog = <<>>
    /\ sentLog = <<>>
    /\ enqLog = <<>>
    /\ deqLog = <<>>
    /\ dispatched = NoDispatch
    /\ TrieIdle
    /\ TransportsIdle

\* IntToStatus(code), then the five predicates and StatusToInt on it.
CallClassify ==
    /\ mode = "status"
    /\ ~pc.called
    /\ pc' = [pc EXCEPT !.called = TRUE,
                        !.classes = ClassesOf(IntToStatus(pc.code)),
                        !.back = StatusToInt(IntToStatus(pc.code))]
    /\ UNCHANGED convertFrame

StatusNext == CallClassify

StatusSpec == StatusInit /\ [][StatusNext]_vars

\* C35: for every code of the registry exactly one of the five class
\* predicates is true, and StatusToInt(IntToStatus(code)) is the code.
C35_StatusPartition ==
    (mode = "status" /\ pc.called) =>
        /\ Cardinality(pc.classes) = 1
        /\ pc.back = pc.code

\* 400 was classified: a client error and nothing else.
C35_Witness_BadRequest ==
    /\ mode = "status"
    /\ pc.called
    /\ pc.code = 400
    /\ pc.classes = {"IsClientError"}

\* The variable names of the pattern.
NamesOf(pattern) ==
    {NameIn(Segments(pattern)[i]) : i \in VariablePositions(pattern)}

\* C36: the variables of a successful Search have as keys exactly the
\* variable names of the returned pattern, each bound to the path segment
\* at the position of that variable; a name bound on a branch that was
\* tried and given up is not among them.
C36_ExactBindings ==
    (searched.called /\ searched.result.found) =>
        /\ DOMAIN searched.result.variables = NamesOf(searched.result.pattern)
        /\ \A i \in VariablePositions(searched.result.pattern) :
              searched.result.variables[NameIn(Segments(searched.result.pattern)[i])]
                  = Segments(searched.path)[i]

\* /a/{x}/b and /a/{y} are inserted and /a/z was searched: the child {x}
\* is tried first and given up, and the result binds y alone.
C36_Witness_Backtracked ==
    /\ searched.called
    /\ Inserted(<<"/", "a", "/", "{", "x", "}", "/", "b">>)
    /\ Inserted(<<"/", "a", "/", "{", "y", "}">>)
    /\ searched.path = <<"/", "a", "/", "z">>
    /\ searched.result.found
    /\ searched.result.pattern = <<"/", "a", "/", "{", "y", "}">>
    /\ DOMAIN searched.result.variables = {<<"y">>}
    /\ searched.result.variables[<<"y">>] = <<"z">>

\* The step is a call of HttpRequestProcessor::ProcessRequest that took a
\* request from the request queue (and so returned true).
TookRequest == Len(requestQueue') < Len(requestQueue)

\* The number of responses in the two lanes.
InLanes == Len(localQueue_) + Len(cloudQueue_)

\* The responses that were put in a lane or sent so far.
Produced == InLanes + Len(sentLog[server]) + Len(sentLog[secondServer])

\* C37: a call of the request processor that returns true takes exactly
\* one request, the oldest, from the request queue and adds at most one
\* response to the lanes; when DispatchRequest returned no response both
\* lanes are as before; and the responses enqueued are never more than the
\* requests dequeued.
C37_OneRequestAtMostOneResponse ==
    [][/\ TookRequest =>
            /\ requestQueue' = Tail(requestQueue)
            /\ InLanes' <= InLanes + 1
            /\ dispatched'.result.response = Null =>
                   (localQueue_' = localQueue_ /\ cloudQueue_' = cloudQueue_)
       /\ mode = "manager" =>
              Cardinality({i \in 1..Len(enqLog') : enqLog'[i] # Null})
                  <= Received' - Len(requestQueue')]_vars

\* A request was taken and dispatched, DispatchRequest returned no
\* response, and the lanes are empty.
C37_Witness_NoResponse ==
    /\ mode = "manager"
    /\ Received = 1
    /\ requestQueue = <<>>
    /\ dispatched.result # Null
    /\ dispatched.result.response = Null
    /\ InLanes = 0
    /\ Produced = 0

(***************************************************************************)
(* Threads running HttpRequestManager::ProcessRequest at once on one       *)
(* HttpRequestQueue (queueMutex).  Every call of the queue holds the lock  *)
(* for its whole body, so each call is one step.                           *)
(***************************************************************************)
MaxQueued == 2

\* The requests in the queue when the threads start, oldest first.
QueuedRequests(n) ==
    [k \in 1..n |-> HttpRequest("GET", PathA, <<>>, <<"local_", Digit(k)>>, LocalServer)]

\* A thread about to test the loop condition for the first time.
AtLoop == [phase |-> "loop", request |-> Null, processedAny |-> FALSE,
           last |-> "none", raced |-> FALSE]

ConsumersInit ==
    /\ mode = "consumers"
    /\ queueImpl = "mutex"
    /\ pc = [t \in Threads |-> AtLoop]
    /\ \E n \in 0..MaxQueued :
          /\ requestQueue = QueuedRequests(n)
          /\ enqLog = QueuedRequests(n)
    /\ localQueue_ = <<>>
    /\ cloudQueue_ = <<>>
    /\ recvLog = <<>>
    /\ sentLog = <<>>
    /\ deqLog = <<>>
    /\ dispatched = <<>>
    /\ TrieIdle
    /\ TransportsIdle

consumerFrame == <<trieVars, transports, queueImpl, recvLog, sentLog, enqLog, mode>>

\* HttpRequestManager::ProcessRequest, the loop condition
\* requestQueue->HasRequests(); the loop is left with processedAny when
\* the queue is empty.
LoopTest ==
    /\ mode = "consumers"
    /\ \E t \in Threads :
          /\ pc[t].phase = "loop"
          /\ pc' = [pc EXCEPT ![t] =
                      [@ EXCEPT !.phase = IF HasRequests(requestQueue)
                                          THEN "isEmpty" ELSE "done"]]
    /\ UNCHANGED <<consumerFrame, requestQueue, localQueue_, cloudQueue_, deqLog,
                   dispatched>>

\* HttpRequestProcessor::ProcessRequest, requestQueue->IsEmpty(): the call
\* returns false for an empty queue and the manager's loop breaks.
EmptinessCheck ==
    /\ mode = "consumers"
    /\ \E t \in Threads :
          /\ pc[t].phase = "isEmpty"
          /\ pc' = [pc EXCEPT ![t] =
                      IF requestQueue = <<>>
                      THEN [@ EXCEPT !.phase = "done", !.last = "false"]
                      ELSE [@ EXCEPT !.phase = "dequeue"]]
    /\ UNCHANGED <<consumerFrame, requestQueue, localQueue_, cloudQueue_, deqLog,
                   dispatched>>

\* HttpRequestProcessor::ProcessRequest, requestQueue->DequeueRequest() and
\* the test of its result: false is returned for nullptr.
Dequeue ==
    /\ mode = "consumers"
    /\ \E t \in Threads :
          /\ pc[t].phase = "dequeue"
          /\ \E d \in {DequeueRequest(requestQueue)} :
                /\ requestQueue' = d.queue
                /\ deqLog' = IF d.r = Null THEN deqLog ELSE Append(deqLog, d.r)
                /\ pc' = [pc EXCEPT ![t] =
                            IF d.r = Null
                            THEN [@ EXCEPT !.phase = "done", !.last = "false",
                                           !.raced = TRUE]
                            ELSE [@ EXCEPT !.phase = "dispatch", !.request = d.r]]
    /\ UNCHANGED <<consumerFrame, localQueue_, cloudQueue_, dispatched>>

\* HttpRequestProcessor::ProcessRequest,
\* responseQueue->EnqueueResponse(dispatcher->DispatchRequest(request)) and
\* return true; the manager sets processedAny and tests the loop condition
\* again.
DispatchAndEnqueue ==
    /\ mode = "consumers"
    /\ \E t \in Threads, behaviour \in ApiBehaviours :
          /\ pc[t].phase = "dispatch"
          /\ \E lanes \in {EnqueueResponse("source", Lanes,
                              DispatchRequest(pc[t].request, behaviour).response)} :
                /\ localQueue_' = lanes.local
                /\ cloudQueue_' = lanes.cloud
          /\ dispatched' = Append(dispatched, pc[t].request)
          /\ pc' = [pc EXCEPT ![t] =
                      [@ EXCEPT !.phase = "loop", !.request = Null,
                                !.processedAny = TRUE, !.last = "true"]]
    /\ UNCHANGED <<consumerFrame, requestQueue, deqLog>>

ConsumersNext ==
    \/ LoopTest
    \/ EmptinessCheck
    \/ Dequeue
    \/ DispatchAndEnqueue

ConsumersSpec == ConsumersInit /\ [][ConsumersNext]_vars

\* The number of DispatchRequest calls made with the request r.
DispatchesOf(r) == CountIn(dispatched, r)

\* A thread's DequeueRequest finds the queue empty in this step.
FindsQueueEmptied(t) ==
    mode = "consumers" /\ pc[t].phase = "dequeue" /\ pc'[t] # pc[t] /\ requestQueue = <<>>

\* C38: when several threads run the manager's ProcessRequest loop on the
\* HttpRequestQueue with queueMutex, no request is dispatched twice, only
\* enqueued requests and never a null request are dispatched, every
\* enqueued request has been dispatched exactly once when all the loops
\* have returned, and a ProcessRequest call whose DequeueRequest finds the
\* queue emptied after its IsEmpty test returns false without a
\* DispatchRequest call.
C38_RacingConsumers ==
    /\ [](mode = "consumers" =>
            /\ \A i \in 1..Len(dispatched) :
                  /\ dispatched[i] # Null
                  /\ InSeq(dispatched[i], enqLog)
                  /\ DispatchesOf(dispatched[i]) = 1
            /\ (\A t \in Threads : pc[t].phase = "done") =>
                  \A k \in 1..Len(enqLog) : DispatchesOf(enqLog[k]) = 1)
    /\ [][\A t \in Threads :
            FindsQueueEmptied(t) =>
                /\ dispatched' = dispatched
                /\ localQueue_' = localQueue_ /\ cloudQueue_' = cloudQueue_
                /\ pc'[t].last = "false"
                /\ pc'[t].phase = "done"]_vars

\* Both loops have returned, one of them after its DequeueRequest found the
\* queue emptied by the other thread, and two requests were dispatched.
C38_Witness_Raced ==
    /\ mode = "consumers"
    /\ \A t \in Threads : pc[t].phase = "done"
    /\ \E t \in Threads : pc[t].raced /\ pc[t].last = "false"
    /\ Len(dispatched) = 2

(***************************************************************************)
(* Threads calling the HttpResponseQueue of HttpResponseQueue.h at once.   *)
(* A std::lock_guard is one step that waits until the mutex is free; the   *)
(* mutexes a thread holds are in its record, and they are released when    *)
(* the call returns.                                                       *)
(***************************************************************************)
MaxLaneCalls == 2

localMutex_ == "localMutex_"
cloudMutex_ == "cloudMutex_"

\* Mutant of LocksOf: IsEmpty reads the two lanes without a lock.
LocksOf_IsEmptyUnlocked(op, arg) ==
    CASE op = "EnqueueResponse" ->
            IF arg = Null THEN <<>>
            ELSE IF arg.source = LocalServer THEN <<localMutex_>>
            ELSE IF arg.source = CloudServer THEN <<cloudMutex_>>
            ELSE <<>>
      [] op = "DequeueLocalResponse" -> <<localMutex_>>
      [] op = "DequeueCloudResponse" -> <<cloudMutex_>>
      [] OTHER -> <<>>

\* The lock_guards of a call of the HttpResponseQueue, in the order they
\* are constructed; HasResponses calls IsEmpty.
LocksOf(op, arg) ==
    CASE op = "EnqueueResponse" ->
            IF arg = Null THEN <<>>
            ELSE IF arg.source = LocalServer THEN <<localMutex_>>
            ELSE IF arg.source = CloudServer THEN <<cloudMutex_>>
            ELSE <<>>
      [] op = "DequeueLocalResponse" -> <<localMutex_>>
      [] op = "DequeueCloudResponse" -> <<cloudMutex_>>
      [] OTHER -> <<localMutex_, cloudMutex_>>

LaneOps ==
    {"EnqueueResponse", "DequeueLocalResponse", "DequeueCloudResponse", "IsEmpty",
     "HasResponses"}

\* The responses the threads enqueue: one per lane, and nullptr.
LaneResponses ==
    {SimpleHttpResponse(LocalId, LocalServer, 200, GetStatusMessage(200), EmptyMap, HandlerBody),
     SimpleHttpResponse(CloudId, CloudServer, 200, GetStatusMessage(200), EmptyMap, HandlerBody),
     Null}

\* A thread outside every call; n counts the calls it has made.
NoLaneCall ==
    [op |-> "none", arg |-> Null, phase |-> "idle", want |-> <<>>, holds |-> <<>>,
     ret |-> Null, empty |-> "none", sawBothEmpty |-> FALSE, n |-> 0]

LanesInit ==
    /\ mode = "lanes"
    /\ queueImpl = "source"
    /\ pc = [t \in Threads |-> NoLaneCall]
    /\ requestQueue = <<>>
    /\ localQueue_ = <<>>
    /\ cloudQueue_ \in {<<>>} \cup {<<r>> : r \in {x \in LaneResponses \ {Null} :
                                                     x.source = CloudServer}}
    /\ recvLog = <<>>
    /\ sentLog = <<>>
    /\ enqLog = <<>>
    /\ deqLog = <<>>
    /\ dispatched = NoDispatch
    /\ TrieIdle
    /\ TransportsIdle

lanesFrame == <<trieVars, transports, requestQueue, queueImpl, recvLog, sentLog, enqLog,
                deqLog, dispatched, mode>>

\* The threads holding the mutex m.
HoldersOf(m) == {t \in Threads : InSeq(m, pc[t].holds)}

\* The records of the threads after a step that leaves the lanes as given:
\* every IsEmpty call in progress notes an instant at which both are empty.
Noting(records, lanes) ==
    [t \in Threads |->
        IF records[t].phase # "idle" /\ IsEmpty(lanes)
        THEN [records[t] EXCEPT !.sawBothEmpty = TRUE]
        ELSE records[t]]

\* A thread calls an operation of the response queue.
LaneCall ==
    /\ mode = "lanes"
    /\ \E t \in Threads, op \in LaneOps :
          /\ pc[t].phase = "idle"
          /\ pc[t].n < MaxLaneCalls
          /\ \E arg \in IF op = "EnqueueResponse" THEN LaneResponses ELSE {Null} :
                pc' = Noting([pc EXCEPT ![t] =
                                [op |-> op, arg |-> arg, phase |-> "lock",
                                 want |-> LocksOf(op, arg), holds |-> <<>>, ret |-> Null,
                                 empty |-> "none", sawBothEmpty |-> FALSE, n |-> pc[t].n]],
                             Lanes)
    /\ UNCHANGED <<lanesFrame, localQueue_, cloudQueue_>>

\* std::lock_guard<std::mutex>: the thread takes the next mutex of its call
\* once no thread holds it.
Lock ==
    /\ mode = "lanes"
    /\ \E t \in Threads :
          /\ pc[t].phase = "lock"
          /\ pc[t].want # <<>>
          /\ HoldersOf(Head(pc[t].want)) = {}
          /\ pc' = [pc EXCEPT ![t] =
                      [@ EXCEPT !.holds = Append(@, Head(pc[t].want)),
                                !.want = Tail(@)]]
    /\ UNCHANGED <<lanesFrame, localQueue_, cloudQueue_>>

\* The statements of EnqueueResponse, DequeueLocalResponse and
\* DequeueCloudResponse after their lock_guard.
LaneBody ==
    /\ mode = "lanes"
    /\ \E t \in Threads :
          /\ pc[t].phase = "lock"
          /\ pc[t].want = <<>>
          /\ pc[t].op \in {"EnqueueResponse", "DequeueLocalResponse", "DequeueCloudResponse"}
          /\ \E after \in
                {IF pc[t].op = "EnqueueResponse"
                 THEN [lanes |-> EnqueueBySource(Lanes, pc[t].arg), r |-> Null]
                 ELSE IF pc[t].op = "DequeueLocalResponse"
                 THEN [lanes |-> [Lanes EXCEPT !.local = DequeueLane(@).queue],
                       r |-> DequeueLane(localQueue_).r]
                 ELSE [lanes |-> [Lanes EXCEPT !.cloud = DequeueLane(@).queue],
                       r |-> DequeueLane(cloudQueue_).r]} :
                /\ localQueue_' = after.lanes.local
                /\ cloudQueue_' = after.lanes.cloud
                /\ pc' = Noting([pc EXCEPT ![t] =
                                   [@ EXCEPT !.phase = "return", !.ret = after.r]],
                                after.lanes)
    /\ UNCHANGED lanesFrame

\* IsEmpty, localQueue_.empty(): && gives false at once for a local lane
\* that holds a response.
ReadLocal ==
    /\ mode = "lanes"
    /\ \E t \in Threads :
          /\ pc[t].phase = "lock"
          /\ pc[t].want = <<>>
          /\ pc[t].op \in {"IsEmpty", "HasResponses"}
          /\ pc' = [pc EXCEPT ![t] =
                      IF localQueue_ = <<>>
                      THEN [@ EXCEPT !.phase = "readCloud"]
                      ELSE [@ EXCEPT !.phase = "return", !.empty = "false"]]
    /\ UNCHANGED <<lanesFrame, localQueue_, cloudQueue_>>

\* IsEmpty, cloudQueue_.empty().
ReadCloud ==
    /\ mode = "lanes"
    /\ \E t \in Threads :
          /\ pc[t].phase = "readCloud"
          /\ pc' = [pc EXCEPT ![t] =
                      [@ EXCEPT !.phase = "return",
                                !.empty = IF cloudQueue_ = <<>> THEN "true" ELSE "false"]]
    /\ UNCHANGED <<lanesFrame, localQueue_, cloudQueue_>>

\* The call returns and its lock_guards release their mutexes; empty is
\* what IsEmpty returned, HasResponses returns its negation.
LaneReturn ==
    /\ mode = "lanes"
    /\ \E t \in Threads :
          /\ pc[t].phase = "return"
          /\ pc' = [pc EXCEPT ![t] =
                      [@ EXCEPT !.phase = "idle", !.holds = <<>>, !.n = @ + 1]]
    /\ UNCHANGED <<lanesFrame, localQueue_, cloudQueue_>>

LanesNext ==
    \/ LaneCall
    \/ Lock
    \/ LaneBody
    \/ ReadLocal
    \/ ReadCloud
    \/ LaneReturn

LanesSpec == LanesInit /\ [][LanesNext]_vars

\* Every thread that can take a step takes one eventually.
LanesLiveSpec == LanesSpec /\ WF_vars(LanesNext)

\* No thread waits for a mutex held by a thread that waits for a mutex.
NoWaitCycle ==
    \A t \in Threads :
        (pc[t].phase = "lock" /\ pc[t].want # <<>>) =>
            \A u \in HoldersOf(Head(pc[t].want)) :
                ~(pc[u].phase = "lock" /\ pc[u].want # <<>>
                  /\ HoldersOf(Head(pc[u].want)) # {})

\* C39: under any interleaving of concurrent EnqueueResponse,
\* DequeueLocalResponse, DequeueCloudResponse, IsEmpty and HasResponses
\* calls every call returns; no mutex has two holders; the two lane
\* mutexes are held together only inside IsEmpty (also when HasResponses
\* calls it), taken local first and cloud second; and an IsEmpty that
\* returns true saw an instant during the call at which both lanes were
\* empty.
C39_NoDeadlock ==
    /\ [](mode = "lanes" =>
            /\ \A m \in {localMutex_, cloudMutex_} : Cardinality(HoldersOf(m)) <= 1
            /\ \A t \in Threads :
                  /\ Len(pc[t].holds) = 2 =>
                        /\ pc[t].op \in {"IsEmpty", "HasResponses"}
                        /\ pc[t].holds = <<localMutex_, cloudMutex_>>
                  /\ (pc[t].want # <<>> /\ Head(pc[t].want) = localMutex_) =>
                        pc[t].holds = <<>>
                  /\ (pc[t].op \in {"IsEmpty", "HasResponses"} /\ pc[t].empty = "true") =>
                        pc[t].sawBothEmpty
            /\ NoWaitCycle)
    /\ \A t \in Threads :
          (mode = "lanes" /\ pc[t].phase # "idle") ~> (pc[t].phase = "idle")

\* A thread inside IsEmpty holds both mutexes and has found both lanes
\* empty while another thread waits for the local mutex to enqueue.
C39_Witness_BothHeld ==
    /\ mode = "lanes"
    /\ \E t, u \in Threads :
          /\ pc[t].op = "IsEmpty" /\ pc[t].phase = "return" /\ pc[t].empty = "true"
          /\ pc[t].holds = <<localMutex_, cloudMutex_>>
          /\ pc[u].op = "EnqueueResponse" /\ pc[u].phase = "lock"
          /\ pc[u].want = <<localMutex_>>

(***************************************************************************)
(* The loops of HttpRequestManager::ProcessRequest and ProcessResponse,    *)
(* one turn of the loop per step, on queues that no other thread fills.    *)
(***************************************************************************)
MaxDrain == 2

\* The sequences of at most n members of the set.
SeqsUpTo(set, n) == UNION {[1..k -> set] : k \in 0..n}

\* The manager outside its loops.
NoLoop == [op |-> "none", phase |-> "idle", calls |-> 0, processedAny |-> FALSE,
           before |-> 0]

DrainInit ==
    /\ mode = "drain"
    /\ queueImpl \in Builds
    /\ pc = NoLoop
    /\ \E n \in 0..MaxDrain : requestQueue = QueuedRequests(n)
    /\ localQueue_ \in SeqsUpTo({r \in ApiResponses : r.source = LocalServer}, MaxDrain)
    /\ cloudQueue_ \in IF queueImpl = "single" THEN {<<>>}
                       ELSE SeqsUpTo({r \in ApiResponses : r.source = CloudServer}, 1)
    /\ recvLog = [t \in Transports |-> <<>>]
    /\ sentLog = [t \in Transports |-> <<>>]
    /\ enqLog = <<>>
    /\ deqLog = <<>>
    /\ dispatched = NoDispatch
    /\ TrieIdle
    /\ TransportsIdle

drainFrame == <<trieVars, transports, queueImpl, recvLog, enqLog, deqLog, mode>>

\* The number of items in the queue the loop of op drains.
Drained(op) ==
    IF op = "ProcessRequest" THEN Len(requestQueue)
    ELSE Len(localQueue_) + Len(cloudQueue_)

\* ProcessRequest or ProcessResponse of the manager is called.
DrainCall ==
    /\ mode = "drain"
    /\ pc.phase # "loop"
    /\ \E op \in {"ProcessRequest", "ProcessResponse"} :
          pc' = [op |-> op, phase |-> "loop", calls |-> 0, processedAny |-> FALSE,
                 before |-> Drained(op)]
    /\ UNCHANGED <<drainFrame, requestQueue, localQueue_, cloudQueue_, sentLog, dispatched>>

\* One turn of while (requestQueue->HasRequests()): the request processor
\* is called, processedAny is set when it returns true, else the loop
\* breaks.
RequestIteration ==
    /\ mode = "drain"
    /\ pc.op = "ProcessRequest"
    /\ pc.phase = "loop"
    /\ IF ~HasRequests(requestQueue)
       THEN /\ pc' = [pc EXCEPT !.phase = "returned"]
            /\ UNCHANGED <<requestQueue, localQueue_, cloudQueue_, dispatched>>
       ELSE \E behaviour \in ApiBehaviours :
               \E p \in {RequestProcessorProcessRequest(queueImpl, requestQueue, Lanes,
                                                        behaviour)} :
                  /\ requestQueue' = p.queue
                  /\ localQueue_' = p.lanes.local
                  /\ cloudQueue_' = p.lanes.cloud
                  /\ dispatched' = p.call
                  /\ pc' = IF p.returns
                           THEN [pc EXCEPT !.calls = @ + 1, !.processedAny = TRUE]
                           ELSE [pc EXCEPT !.calls = @ + 1, !.phase = "returned"]
    /\ UNCHANGED <<drainFrame, sentLog>>

\* One turn of while (true) of ProcessResponse: the response processor is
\* called, processedAny is set when it returns true, else the loop breaks;
\* ok is what SendMessage returns.
ResponseIteration ==
    /\ mode = "drain"
    /\ pc.op = "ProcessResponse"
    /\ pc.phase = "loop"
    /\ \E ok \in BOOLEAN :
          \E p \in {ProcessorProcessResponse(queueImpl, Lanes, sentLog, ok)} :
             /\ localQueue_' = p.lanes.local
             /\ cloudQueue_' = p.lanes.cloud
             /\ sentLog' = p.sent
             /\ pc' = IF p.returns
                      THEN [pc EXCEPT !.calls = @ + 1, !.processedAny = TRUE]
                      ELSE [pc EXCEPT !.calls = @ + 1, !.phase = "returned"]
    /\ UNCHANGED <<drainFrame, requestQueue, dispatched>>

DrainNext ==
    \/ DrainCall
    \/ RequestIteration
    \/ ResponseIteration

DrainSpec == DrainInit /\ [][DrainNext]_vars

\* The manager's thread keeps running.
DrainLiveSpec == DrainSpec /\ WF_vars(DrainNext)

\* A turn of a loop in this step.
Iterates == mode = "drain" /\ pc.phase = "loop" /\ pc'.calls = pc.calls + 1

\* C40: with no concurrent producer every call of manager ProcessRequest
\* and ProcessResponse returns, after at most one processor call more than
\* the queue it drains held at the call: no turn of the loop adds to that
\* queue and a turn that reports progress removes exactly one item from it.
C40_DrainLoopsTerminate ==
    /\ [][Iterates =>
            /\ Drained(pc.op)' <= Drained(pc.op)
            /\ pc'.phase = "loop" => Drained(pc.op)' = Drained(pc.op) - 1]_vars
    /\ [](mode = "drain" => pc.calls <= pc.before + 1)
    /\ (mode = "drain" /\ pc.phase = "loop") ~> (pc.phase = "returned")

\* ProcessRequest has returned true after two processor calls that emptied
\* a queue of two requests.
C40_Witness_Drained ==
    /\ mode = "drain"
    /\ pc.op = "ProcessRequest"
    /\ pc.phase = "returned"
    /\ pc.before = 2
    /\ pc.calls = 2
    /\ pc.processedAny
    /\ requestQueue = <<>>

====
